---- MODULE Spec2Model ----
(***************************************************************************)
(* Earnings estimator of coolait/ReliFi-MVP (src/scrapper).                *)
(*                                                                         *)
(* Numbers are fixed point: multipliers and factors are thousandths        *)
(* (1.15 is 1150), money is thousandths of a dollar, the event boost is    *)
(* hundredths (0.05 is 5), wall-clock time is seconds and event times are  *)
(* ticks of 1/TicksPerHour hour.                                           *)
(***************************************************************************)
EXTENDS Integers, Sequences, FiniteSets, TLC

\* ------------------------------------------------------------------------
\* Bounds of the model
\* ------------------------------------------------------------------------
TicksPerHour == 2
MaxEvents == 4
NumThreads == 3      \* request threads of the server

VARIABLES
    \* get_event_boost (ticketmaster_events_scraper.py)
    boost_pc,        \* "idle" | "loop" | "done"
    hour,            \* target hour of the call
    total_boost,     \* running total, hundredths
    processed,       \* number of events the loop has consumed
    event,           \* the event the loop consumed last
    added,           \* what that event added to total_boost
    boost_result,    \* the value returned
    overlap_none,    \* history: no consumed event had a window meeting the hour
    outside_all,     \* history: the hour lay outside [start-w, end+w) of each
    overlap_sum      \* history: the multipliers of the consumed events that have
                     \* a window meeting the hour, each event counted once

boost_vars == <<boost_pc, hour, total_boost, processed, event, added,
                boost_result, overlap_none, outside_all, overlap_sum>>

VARIABLES
    \* ImprovedEarningsScraper.get_all_estimates (improved_data_scraper.py)
    est_pc,          \* "idle" | "done"
    est_in,          \* the inputs of the call
    multipliers,     \* get_demand_multipliers of the call, per service type
    predictions      \* results['predictions'] of the call

est_vars == <<est_pc, est_in, multipliers, predictions>>

VARIABLES
    \* the caches: LiveDataScraper.cache (one client's keys at a time),
    \* TicketmasterEventsScraper.cache
    client,          \* the source client the run exercises
    now,             \* datetime.now().timestamp(), seconds
    start_hour,      \* datetime.now().hour at now = 0
    cache,           \* cache_key -> [data, timestamp]
    call             \* the last client call and what it returned

VARIABLES
    \* api_server: the module globals and the last /api/earnings response
    improved_scraper_available,
    environment,               \* whether the forecasters' modules import, and
                               \* whether their constructors succeed
    forecasters_available,     \* _forecasters_available
    rideshare_forecaster,      \* TRUE once the instance exists
    delivery_forecaster,
    stored_by,                 \* cache key -> the request that stored the entry
                               \* and the body that request was answered with
    reply                      \* the last response of the handler

api_vars == <<improved_scraper_available, environment, forecasters_available, rideshare_forecaster,
              delivery_forecaster, stored_by, reply>>

cache_vars == <<client, now, start_hour, cache, call>>

VARIABLES
    \* get_all_estimates over the source clients of a new scraper
    src_pc,          \* "idle" | "done"
    src_in,          \* the request of the call: its key and its coordinates, and
                     \* which providers have credentials configured
    sources,         \* per client: how its live call went, the tag it returned
    src_predictions  \* results['predictions']

src_vars == <<src_pc, src_in, sources, src_predictions>>

VARIABLES
    \* concurrent /api/earnings requests on the shared earnings_cache
    thread,          \* per request thread: [pc, key]
    earnings_cache   \* the keys that have an unexpired entry

conc_vars == <<thread, earnings_cache>>

VARIABLES
    \* the legacy block of get_earnings (scrape.py, delivery_forecaster.py)
    leg_pc,          \* "idle" | "done"
    leg_in,          \* the hour and what the forecasters estimated
    leg_results,     \* what the two calculate_net_earnings returned
    leg_predictions  \* the predictions the block appended

leg_vars == <<leg_pc, leg_in, leg_results, leg_predictions>>

VARIABLES
    \* the same estimate asked of two new scrapers at two hours of the day
    twin_pc,         \* "idle" | "first" | "done"
    twin_in,         \* the request, and how every provider answers it
    twin_first,      \* readings and predictions of the first scraper
    twin_second      \* readings and predictions of the second scraper

twin_vars == <<twin_pc, twin_in, twin_first, twin_second>>

VARIABLES
    \* GET /api/earnings/lightweight
    light_pc,        \* "idle" | "done"
    light_in,        \* the request and what the improved scraper did
    light_reply      \* the response

light_vars == <<light_pc, light_in, light_reply>>

VARIABLES
    \* the Ticketmaster requests of one get_all_estimates call
    tm_pc,           \* the estimate being computed and the step it is at
    tm_in,           \* the request and how the geocoder and Ticketmaster answer
    tm_cache,        \* the events entry of live_scraper.cache, if any
    tm_queries       \* the requests sent to Ticketmaster so far

tm_vars == <<tm_pc, tm_in, tm_cache, tm_queries>>

VARIABLES
    \* earnings_cache as the three endpoints that use it leave it
    ep_cache,        \* cache key -> the dict stored under it
    ep_reply         \* the last response

ep_vars == <<ep_cache, ep_reply>>

vars == <<boost_vars, est_vars, cache_vars, api_vars, src_vars, conc_vars, leg_vars, twin_vars,
          light_vars, tm_vars, ep_vars>>

\* ------------------------------------------------------------------------
\* EventBoostCalculator: get_event_boost
\* ------------------------------------------------------------------------
NoTime == 0 - 1

Hours == 0..23

\* venue capacities around the two tier boundaries
Capacities == {0, 499, 500, 4999, 5000, 20000}

Events ==
    LET EndTicks == {NoTime, 16 * TicksPerHour, 19 * TicksPerHour, 19 * TicksPerHour + 1,
                     20 * TicksPerHour + 1, 22 * TicksPerHour}
    IN
    \* start and end instants of the events of the date, in ticks since 00:00;
    \* an end before the start is what a provider record with a local start and
    \* a UTC end parses to
    LET StartTicks == {NoTime, 19 * TicksPerHour, 19 * TicksPerHour + 1}
    IN
          [capacity : Capacities, start_time : StartTicks, end_time : EndTicks]

AttendanceSwapped(capacity) ==
    IF capacity < 500 THEN 5 ELSE IF capacity < 5000 THEN 50 ELSE 20

attendance_multiplier(capacity) ==
    IF capacity < 500 THEN 5
    ELSE IF capacity < 5000 THEN 20
    ELSE 50

arrival_hours_before(capacity) ==
    IF capacity < 500 THEN 1
    ELSE IF capacity < 5000 THEN 2
    ELSE 3

departure_hours_after(capacity) ==
    IF capacity < 500 THEN 1
    ELSE IF capacity < 5000 THEN 2
    ELSE 3

end_time_naive(e) ==
    IF e.end_time = NoTime THEN e.start_time + 2 * TicksPerHour ELSE e.end_time

hour_start(h) == h * TicksPerHour
hour_end(h) == (h + 1) * TicksPerHour

\* "Hour overlaps if: hour_start < window_end AND hour_end > window_start"
PointInWindow(h, window_start, window_end) ==
    window_start <= hour_start(h) /\ hour_start(h) < window_end

hour_overlaps(h, window_start, window_end) ==
    hour_start(h) < window_end /\ hour_end(h) > window_start

arrival_window_start(e) ==
    e.start_time - arrival_hours_before(e.capacity) * TicksPerHour
departure_window_end(e) ==
    end_time_naive(e) + departure_hours_after(e.capacity) * TicksPerHour

ContributionPerWindow(e, h) ==
    IF e.start_time = NoTime THEN 0
    ELSE (IF hour_overlaps(h, arrival_window_start(e), e.start_time)
              THEN attendance_multiplier(e.capacity) ELSE 0)
       + (IF hour_overlaps(h, e.start_time, end_time_naive(e))
              THEN attendance_multiplier(e.capacity) ELSE 0)
       + (IF hour_overlaps(h, end_time_naive(e), departure_window_end(e))
              THEN attendance_multiplier(e.capacity) ELSE 0)

\* one iteration of the loop over events: what the event adds to total_boost
event_contribution(e, h) ==
    IF e.start_time = NoTime THEN 0
    ELSE IF hour_overlaps(h, arrival_window_start(e), e.start_time)
        THEN attendance_multiplier(e.capacity)
    ELSE IF hour_overlaps(h, e.start_time, end_time_naive(e))
        THEN attendance_multiplier(e.capacity)
    ELSE IF hour_overlaps(h, end_time_naive(e), departure_window_end(e))
        THEN attendance_multiplier(e.capacity)
    ELSE 0

UncappedBoost(total) == total

cap_total_boost(total) == IF total < 150 THEN total ELSE 150

\* the three half-open windows of an event, as sets of ticks
TicksOf(from, to) == from..(to - 1)

EventWindows(e) ==
    IF e.start_time = NoTime THEN {}
    ELSE {TicksOf(arrival_window_start(e), e.start_time),
          TicksOf(e.start_time, end_time_naive(e)),
          TicksOf(end_time_naive(e), departure_window_end(e))}

HourTicks(h) == TicksOf(hour_start(h), hour_end(h))

OverlapsAWindow(e, h) == \E w \in EventWindows(e) : w \cap HourTicks(h) # {}

\* entry of get_event_boost: the early returns, then the loop
GetEventBoostStart ==
    LET EventSources == {"ticketmaster", "time_estimate", "time_estimate_weekend",
                         "time_estimate_friday", "default"}
    IN
    /\ boost_pc = "idle"
    /\ \E h \in Hours, source \in EventSources, date_ok \in BOOLEAN :
        /\ hour' = h
        /\ IF source # "ticketmaster" \/ ~date_ok
              THEN boost_pc' = "done"
              ELSE boost_pc' = "loop"
    /\ boost_result' = 0
    /\ UNCHANGED <<total_boost, processed, event, added, overlap_none, outside_all,
                   overlap_sum>>

GetEventBoostEvent ==
    LET OutsideHull(e, h) ==
            \/ e.start_time = NoTime
            \/ TicksOf(arrival_window_start(e), departure_window_end(e)) \cap HourTicks(h) = {}
    IN
    /\ boost_pc = "loop"
    /\ processed < MaxEvents
    /\ \E e \in Events :
        /\ event' = e
        /\ added' = event_contribution(e, hour)
        /\ total_boost' = total_boost + event_contribution(e, hour)
        /\ overlap_none' = (overlap_none /\ ~OverlapsAWindow(e, hour))
        /\ outside_all' = (outside_all /\ OutsideHull(e, hour))
        /\ overlap_sum' = overlap_sum +
                (IF OverlapsAWindow(e, hour) THEN attendance_multiplier(e.capacity) ELSE 0)
    /\ processed' = processed + 1
    /\ UNCHANGED <<boost_pc, hour, boost_result>>

GetEventBoostReturn ==
    /\ boost_pc = "loop"
    /\ boost_result' = cap_total_boost(total_boost)
    /\ boost_pc' = "done"
    /\ UNCHANGED <<hour, total_boost, processed, event, added, overlap_none, outside_all,
                   overlap_sum>>

\* ------------------------------------------------------------------------
\* config.py tables and get_location_data
\* ------------------------------------------------------------------------
Mul(a, b) == (a * b) \div 1000

Min(a, b) == IF a < b THEN a ELSE b
Max(a, b) == IF a > b THEN a ELSE b

\* round(x, 2) on thousandths
Round2(x) == ((x + 5) \div 10) * 10

DEMAND_TIME_FACTORS ==
    << 350, 300, 250, 250, 300, 450,
       650, 900, 1100, 850, 750, 850,
       950, 850, 700, 850, 1150, 1350,
       1500, 1250, 1000, 850, 700, 500 >>

DELIVERY_DEMAND_TIME_FACTORS ==
    << 100, 50, 50, 50, 50, 100,
       200, 400, 500, 400, 600,
       900, 1500, 1300, 800, 500,
       600, 1000, 1500, 1400, 1200,
       800, 400, 200 >>

AVG_TRIP_DISTANCE_MILES == 4200
AVG_MPG == 22
WEAR_TEAR_PER_MILE == 350
AVG_DELIVERY_DISTANCE_MILES == 2500
DELIVERY_MPG == 25
GAS_PRICE_PER_GALLON == 5250

\* major_cities of get_location_data; a city that is not in the table keeps
\* the defaults
get_location_data(location) ==
    CASE location = "san francisco" ->
            [pricing_multiplier |-> 1200, base_hourly_rideshare |-> 28, base_hourly_delivery |-> 24]
      [] location = "new york" ->
            [pricing_multiplier |-> 1300, base_hourly_rideshare |-> 32, base_hourly_delivery |-> 26]
      [] location = "los angeles" ->
            [pricing_multiplier |-> 1150, base_hourly_rideshare |-> 26, base_hourly_delivery |-> 22]
      [] location = "chicago" ->
            [pricing_multiplier |-> 1100, base_hourly_rideshare |-> 24, base_hourly_delivery |-> 20]
      [] location = "seattle" ->
            [pricing_multiplier |-> 1150, base_hourly_rideshare |-> 25, base_hourly_delivery |-> 21]
      [] location = "boston" ->
            [pricing_multiplier |-> 1100, base_hourly_rideshare |-> 24, base_hourly_delivery |-> 20]
      [] location = "austin" ->
            [pricing_multiplier |-> 1000, base_hourly_rideshare |-> 22, base_hourly_delivery |-> 18]
      [] location = "miami" ->
            [pricing_multiplier |-> 1100, base_hourly_rideshare |-> 23, base_hourly_delivery |-> 19]
      [] OTHER ->
            [pricing_multiplier |-> 1000, base_hourly_rideshare |-> 22, base_hourly_delivery |-> 18]

\* ------------------------------------------------------------------------
\* DemandMultiplierComposer: get_demand_multipliers
\* ------------------------------------------------------------------------
\* a request date: whether strptime accepts it, and its weekday (0 = Monday)
\* and month; today is the date datetime.now() gives
Dates ==
    { [ok |-> TRUE, weekday |-> 1, month |-> 4, today_weekday |-> 1, today_month |-> 4],
      [ok |-> TRUE, weekday |-> 1, month |-> 12, today_weekday |-> 1, today_month |-> 4],
      [ok |-> TRUE, weekday |-> 4, month |-> 7, today_weekday |-> 1, today_month |-> 4],
      [ok |-> TRUE, weekday |-> 5, month |-> 11, today_weekday |-> 1, today_month |-> 4],
      [ok |-> TRUE, weekday |-> 6, month |-> 1, today_weekday |-> 1, today_month |-> 4],
      [ok |-> FALSE, weekday |-> 0, month |-> 0, today_weekday |-> 5, today_month |-> 7],
      [ok |-> FALSE, weekday |-> 0, month |-> 0, today_weekday |-> 4, today_month |-> 12] }

time_multiplier(service_type, target_hour) ==
    IF service_type = "rideshare"
        THEN DEMAND_TIME_FACTORS[target_hour + 1]
        ELSE DELIVERY_DEMAND_TIME_FACTORS[target_hour + 1]

weekend_multiplier(service_type, date) ==
    LET date_is_weekend(date_) == IF date_.ok THEN date_.weekday >= 5 ELSE FALSE
    IN
    LET date_weekday(date_) == IF date_.ok THEN date_.weekday ELSE 0
    IN
    IF service_type = "rideshare"
        THEN (IF date_weekday(date) = 4 THEN 1150
              ELSE IF date_is_weekend(date) THEN 1250 ELSE 1000)
        ELSE (IF date_weekday(date) = 4 THEN 1250
              ELSE IF date_is_weekend(date) THEN 1350 ELSE 1000)

seasonal_multiplier(service_type, date) ==
    LET date_month(date_) == IF date_.ok THEN date_.month ELSE date_.today_month
    IN
    IF date_month(date) \in {11, 12} THEN 1200
    ELSE IF date_month(date) \in {6, 7, 8}
        THEN (IF service_type = "rideshare" THEN 1100 ELSE 950)
    ELSE 1000

UncappedDemand(service_type, base_total) == base_total

cap_total_demand(service_type, base_total) ==
    IF service_type = "rideshare" THEN Min(base_total, 1800) ELSE Min(base_total, 2000)

get_demand_multipliers(date, target_hour, service_type, r) ==
    LET base_total_of(m) ==
            Mul(Mul(Mul(Mul(m.time_multiplier, m.weekend_multiplier), m.event_multiplier),
                    m.weather_multiplier), m.seasonal_multiplier)
    IN
    \* traffic multiplier of the traffic reading to the additive traffic_factor
    LET traffic_factor_additive(traffic_multiplier) ==
            IF traffic_multiplier > 1000 THEN Min((traffic_multiplier - 1000) \div 2, 300)
            ELSE IF traffic_multiplier < 1000 THEN Max((traffic_multiplier - 1000) \div 5, 0 - 100)
            ELSE 0
    IN
    LET m == [time_multiplier |-> time_multiplier(service_type, target_hour),
              weekend_multiplier |-> weekend_multiplier(service_type, date),
              event_multiplier |-> r.event_multiplier,
              event_boost |-> r.event_boost,
              weather_multiplier |-> r.weather_multiplier,
              seasonal_multiplier |-> seasonal_multiplier(service_type, date),
              traffic_factor |-> traffic_factor_additive(r.traffic_factor)]
    IN  [time_multiplier |-> m.time_multiplier,
         weekend_multiplier |-> m.weekend_multiplier,
         event_multiplier |-> m.event_multiplier,
         event_boost |-> m.event_boost,
         weather_multiplier |-> m.weather_multiplier,
         seasonal_multiplier |-> m.seasonal_multiplier,
         traffic_factor |-> m.traffic_factor,
         base_total |-> base_total_of(m),
         total_demand |-> cap_total_demand(service_type, base_total_of(m))]

\* ------------------------------------------------------------------------
\* EarningsModel: estimate_rideshare_earnings, estimate_delivery_earnings
\* ------------------------------------------------------------------------
\* base_hourly * total_demand * (1 + traffic_factor + event_boost) * location_adjustment
adjusted_earnings(base_hourly, location_data, dm) ==
    LET location_adjustment(location_data_) ==
            IF location_data_.pricing_multiplier > 1200 THEN 1100 ELSE 1000
    IN
    Mul(Mul(base_hourly * dm.total_demand,
            1000 + dm.traffic_factor + dm.event_boost * 10),
        location_adjustment(location_data))

SurgeIgnoresEvents(total_demand, event_boost) ==
    IF total_demand > 1500 THEN 1150
    ELSE IF total_demand > 1300 THEN 1100
    ELSE IF total_demand < 700 THEN 950
    ELSE 1000

surge_multiplier(total_demand, event_boost) ==
    LET base == IF total_demand > 1500 THEN 1150
                ELSE IF total_demand > 1300 THEN 1100
                ELSE IF total_demand < 700 THEN 950
                ELSE 1000
    IN  IF event_boost > 0
            THEN Min(base + Min(event_boost * 3, 150), 1300)
            ELSE base

PeakPayUncapped(target_hour, event_boost) ==
    LET base == IF target_hour \in {12, 13} THEN 1150
                ELSE IF target_hour \in {18, 19, 20} THEN 1200
                ELSE IF target_hour \in {11, 17, 21} THEN 1050
                ELSE 1000
    IN  base + (event_boost * 10) \div 4

peak_pay_multiplier(target_hour, event_boost) ==
    LET base == IF target_hour \in {12, 13} THEN 1150
                ELSE IF target_hour \in {18, 19, 20} THEN 1200
                ELSE IF target_hour \in {11, 17, 21} THEN 1050
                ELSE 1000
    IN  IF event_boost > 0
            THEN Min(base + Min((event_boost * 10) \div 4, 120), 1350)
            ELSE base

trips_per_hour(dm) == Max(1000, Min(3500, Mul(2200, dm.time_multiplier)))

deliveries_per_hour(dm) == Max(1000, Min(4000, Mul(2500, dm.time_multiplier)))

UnclampedNet(net_earnings) == net_earnings

\* net_earnings = min(net_earnings, 55); net_earnings = max(net_earnings, 8)
clamp_rideshare_net(net_earnings) == Max(Min(net_earnings, 55000), 8000)

\* net_earnings = min(net_earnings, 45); net_earnings = max(net_earnings, 10)
clamp_delivery_net(net_earnings) == Max(Min(net_earnings, 45000), 10000)

DemandScoreUnscaled(total_demand) == Round2(Min(1000, total_demand))

demand_score(total_demand) == Round2(Min(1000, (total_demand * 1000) \div 1500))

estimate_rideshare_earnings(location, date, target_hour, r) ==
    LET rideshare_hotspot(target_hour_) ==
            IF target_hour_ \in {7, 8, 17, 18} THEN "Financial District / Commute Corridors"
            ELSE IF target_hour_ \in {12, 13} THEN "Downtown / Business Districts"
            ELSE IF target_hour_ \in {18, 19, 20} THEN "Entertainment Districts"
            ELSE IF target_hour_ >= 21 \/ target_hour_ <= 2 THEN "Nightlife Areas"
            ELSE "Downtown Core"
    IN
    LET rideshare_costs(dm, r_) ==
            LET miles_per_hour == Mul(Mul(trips_per_hour(dm), AVG_TRIP_DISTANCE_MILES), r_.traffic_factor)
            IN  Mul(miles_per_hour \div AVG_MPG, r_.price_per_gallon)
                + Mul(miles_per_hour, WEAR_TEAR_PER_MILE)
    IN
    LET location_data == get_location_data(location)
        dm == get_demand_multipliers(date, target_hour, "rideshare", r)
        surge == surge_multiplier(dm.total_demand, dm.event_boost)
        gross_earnings ==
            Mul(adjusted_earnings(location_data.base_hourly_rideshare, location_data, dm), surge)
        total_costs == rideshare_costs(dm, r)
        net_earnings == clamp_rideshare_net(gross_earnings - total_costs)
    IN  [service |-> "Uber",
         min |-> Round2(Max(10000, net_earnings - 5000)),
         max |-> Round2(net_earnings + 5000),
         hotspot |-> rideshare_hotspot(target_hour),
         demandScore |-> demand_score(dm.total_demand),
         tripsPerHour |-> Round2(trips_per_hour(dm)),
         surgeMultiplier |-> Round2(surge),
         color |-> "#4285F4",
         baseEarnings |-> Round2(gross_earnings),
         costs |-> Round2(total_costs),
         netEarnings |-> Round2(net_earnings),
         eventBoost |-> dm.event_boost * 10,
         eventBoostPercentage |-> dm.event_boost * 1000]

estimate_delivery_earnings(location, date, target_hour, service, r) ==
    \* str.capitalize() of the service key
    LET capitalize(service_) ==
            CASE service_ = "doordash" -> "Doordash"
              [] service_ = "ubereats" -> "Ubereats"
              [] service_ = "grubhub" -> "Grubhub"
              [] OTHER -> service_
    IN
    LET service_color(service_) ==
            CASE service_ = "doordash" -> "#FFD700"
              [] service_ = "ubereats" -> "#06C167"
              [] service_ = "grubhub" -> "#FF8000"
              [] OTHER -> "#FFD700"
    IN
    LET service_multiplier(service_) ==
            CASE service_ = "doordash" -> 1000
              [] service_ = "ubereats" -> 950
              [] service_ = "grubhub" -> 1050
              [] OTHER -> 1000
    IN
    LET delivery_costs(dm, r_) ==
            LET miles_per_hour == Mul(Mul(deliveries_per_hour(dm), AVG_DELIVERY_DISTANCE_MILES), r_.traffic_factor)
            IN  Mul(miles_per_hour \div DELIVERY_MPG, r_.price_per_gallon)
                + Mul(miles_per_hour, Mul(WEAR_TEAR_PER_MILE, 700))
    IN
    LET location_data == get_location_data(location)
        dm == get_demand_multipliers(date, target_hour, "delivery", r)
        peak == peak_pay_multiplier(target_hour, dm.event_boost)
        gross_earnings ==
            Mul(Mul(adjusted_earnings(location_data.base_hourly_delivery, location_data, dm),
                    service_multiplier(service)), peak)
        total_costs == delivery_costs(dm, r)
        net_earnings == clamp_delivery_net(gross_earnings - total_costs)
    IN  [service |-> capitalize(service),
         min |-> Round2(Max(12000, net_earnings - 6000)),
         max |-> Round2(net_earnings + 6000),
         hotspot |-> "Restaurant Districts",
         demandScore |-> demand_score(dm.total_demand),
         tripsPerHour |-> Round2(deliveries_per_hour(dm)),
         surgeMultiplier |-> Round2(peak),
         color |-> service_color(service),
         baseEarnings |-> Round2(gross_earnings),
         costs |-> Round2(total_costs),
         netEarnings |-> Round2(net_earnings),
         eventBoost |-> dm.event_boost * 10,
         eventBoostPercentage |-> dm.event_boost * 1000]

\* the Lyft prediction is a copy of the Uber one with four fields scaled
lyft_estimate(uber_estimate) ==
    [uber_estimate EXCEPT
        !.service = "Lyft",
        !.min = Round2(Mul(uber_estimate.min, 920)),
        !.max = Round2(Mul(uber_estimate.max, 920)),
        !.demandScore = Round2(Mul(uber_estimate.demandScore, 950)),
        !.tripsPerHour = Round2(Mul(uber_estimate.tripsPerHour, 900)),
        !.color = "#FF00BF"]

get_all_estimates(location, date, target_hour, r) ==
    << estimate_rideshare_earnings(location, date, target_hour, r),
       lyft_estimate(estimate_rideshare_earnings(location, date, target_hour, r)),
       estimate_delivery_earnings(location, date, target_hour, "doordash", r),
       estimate_delivery_earnings(location, date, target_hour, "ubereats", r),
       estimate_delivery_earnings(location, date, target_hour, "grubhub", r) >>

EventBoosts == {0, 5, 50, 150}
NoReadings == [weather_multiplier |-> 1000, event_multiplier |-> 1000, event_boost |-> 0,
               traffic_factor |-> 1000, price_per_gallon |-> GAS_PRICE_PER_GALLON]

GetAllEstimates ==
    LET Readings ==
            LET GasPrices == {3900, 5250}
            IN
            LET TrafficFactors == {700, 1000, 1200, 4000}
            IN
            LET EventMultipliers == {1000, 1300}
            IN
            \* the readings the source clients hand to one get_all_estimates call:
            \* weather multipliers of get_weather_data, demand multipliers of
            \* get_events_data, boosts of get_event_boost, traffic factors of
            \* get_traffic_data (1 + 0.3 * congestion ratio, or the time estimate) and
            \* the fuel prices of get_gas_prices
            LET WeatherMultipliers == {1000, 1200, 1500}
            IN
                    [weather_multiplier : WeatherMultipliers,
                     event_multiplier : EventMultipliers,
                     event_boost : EventBoosts,
                     traffic_factor : TrafficFactors,
                     price_per_gallon : GasPrices]
    IN
    LET Cities == {"san francisco", "new york", "chicago", "austin", "springfield"}
    IN
    /\ est_pc = "idle"
    /\ \E location \in Cities, date \in Dates, target_hour \in Hours, r \in Readings :
        /\ est_in' = [location |-> location, date |-> date, hour |-> target_hour,
                      readings |-> r]
        /\ multipliers' = [rideshare |-> get_demand_multipliers(date, target_hour, "rideshare", r),
                           delivery |-> get_demand_multipliers(date, target_hour, "delivery", r)]
        /\ predictions' = get_all_estimates(location, date, target_hour, r)
    /\ est_pc' = "done"

\* ------------------------------------------------------------------------
\* SourceClients: LiveDataScraper, TicketmasterEventsScraper
\* ------------------------------------------------------------------------
SourceClients == {"weather", "events", "traffic", "gas", "ticketmaster"}

\* how a live provider call can fail
LiveFailures == {"non2xx", "timeout", "raised"}

WeatherResponses == LiveFailures \cup {"rain", "clear", "empty"}
TicketmasterResponses == LiveFailures \cup {"no_events", "events"}
TrafficResponses == LiveFailures \cup {"not_ok", "free_flow", "jammed"}
StateResponses == LiveFailures \cup {"TX", "Ohio"}
\* the source tags of a live provider
LiveTags == {"openweathermap_forecast", "openweathermap_current", "ticketmaster", "google_maps"}
\* the source tags of estimates and defaults
EstimateTags == {"default", "estimate", "time_estimate", "time_estimate_weekend",
                 "time_estimate_friday", "regional_average"}

live_outcome(response) == IF response \in LiveFailures THEN "failed" ELSE "ok"

WeatherTaggedBeforeStatus(forecast, response) ==
    [multiplier |-> IF response = "rain" THEN 1400 ELSE 1000,
     source |-> IF forecast THEN "openweathermap_forecast" ELSE "openweathermap_current"]

\* the multiplier the two OpenWeatherMap branches derive from a 200 response
weather_from_response(forecast, response) ==
    LET source == IF forecast THEN "openweathermap_forecast" ELSE "openweathermap_current"
    IN  CASE response = "rain" -> [multiplier |-> 1400, source |-> source]
          [] response = "clear" -> [multiplier |-> 1000, source |-> source]
          [] response = "empty" ->
                IF forecast THEN [multiplier |-> 1000, source |-> "default"]
                ELSE [multiplier |-> 1000, source |-> source]
          [] OTHER -> [multiplier |-> 1000, source |-> "default"]

\* "if not lat or not lng" of a truthy pair keeps the caller's coordinates;
\* otherwise lat, lng = coords of _geocode_location
provider_coords(coords) == IF coords THEN "request" ELSE "geocoded"

\* get_weather_data past the cache check
get_weather_data(is_weather_available, coords, geocode, forecast, response, date) ==
    IF ~is_weather_available
        THEN [data |-> [multiplier |->
                            IF date.ok /\ date.month \in {12, 1, 2} THEN 1150
                            ELSE IF date.ok /\ date.month \in {6, 7, 8} THEN 1050
                            ELSE 1000,
                        source |-> "default"],
              cached |-> FALSE, live |-> "none", geocoder |-> FALSE, coords |-> "none"]
    ELSE IF ~coords /\ geocode = "failed"
        THEN [data |-> [multiplier |-> 1000, source |-> "default"],
              cached |-> FALSE, live |-> "none", geocoder |-> TRUE, coords |-> "none"]
    ELSE [data |-> weather_from_response(forecast, response),
          cached |-> TRUE, live |-> live_outcome(response), geocoder |-> ~coords,
          coords |-> provider_coords(coords)]

\* TicketmasterEventsScraper._get_time_based_estimate
ticketmaster_time_based_estimate(date) ==
    IF date.ok /\ date.weekday >= 5
        THEN [events_found |-> 0, demand_multiplier |-> 1150, source |-> "time_estimate_weekend"]
    ELSE IF date.ok /\ date.weekday = 4
        THEN [events_found |-> 0, demand_multiplier |-> 1100, source |-> "time_estimate_friday"]
    ELSE [events_found |-> 0, demand_multiplier |-> 1000, source |-> "time_estimate"]

\* TicketmasterEventsScraper.get_events past the cache check
get_events(api_key, coords, geocode, response, date) ==
    IF ~api_key
        THEN [data |-> ticketmaster_time_based_estimate(date),
              cached |-> FALSE, live |-> "none", geocoder |-> FALSE, coords |-> "none",
              providers |-> {}]
    ELSE IF ~coords /\ geocode = "failed"
        THEN [data |-> ticketmaster_time_based_estimate(date),
              cached |-> FALSE, live |-> "none", geocoder |-> TRUE, coords |-> "none",
              providers |-> {}]
    ELSE IF response = "events"
        THEN [data |-> [events_found |-> 1, demand_multiplier |-> 1000, source |-> "ticketmaster"],
              cached |-> TRUE, live |-> "ok", geocoder |-> ~coords,
              coords |-> provider_coords(coords), providers |-> {"ticketmaster"}]
    ELSE [data |-> ticketmaster_time_based_estimate(date),
          cached |-> FALSE, live |-> live_outcome(response), geocoder |-> ~coords,
          coords |-> provider_coords(coords), providers |-> {"ticketmaster"}]

\* the weekday estimate at the end of get_events_data
events_time_estimate(date) ==
    IF ~date.ok
        THEN [events_found |-> 0, demand_multiplier |-> 1000, source |-> "default"]
    ELSE IF date.weekday >= 5
        THEN [events_found |-> 0, demand_multiplier |-> 1300, source |-> "time_estimate_weekend"]
    ELSE IF date.weekday = 4
        THEN [events_found |-> 0, demand_multiplier |-> 1200, source |-> "time_estimate_friday"]
    ELSE [events_found |-> 0, demand_multiplier |-> 1000, source |-> "time_estimate"]

EventsEscalates(is_ticketmaster_available, coords, geocode, response, date) ==
    LET ticketmaster_events == get_events(is_ticketmaster_available, coords, geocode, response, date)
    IN  IF is_ticketmaster_available /\ ticketmaster_events.data.source = "ticketmaster"
            THEN [data |-> [events_found |-> ticketmaster_events.data.events_found,
                            demand_multiplier |-> ticketmaster_events.data.demand_multiplier,
                            source |-> "ticketmaster"],
                  cached |-> TRUE, live |-> "ok", geocoder |-> ticketmaster_events.geocoder,
                  coords |-> ticketmaster_events.coords,
                  providers |-> ticketmaster_events.providers]
            ELSE [data |-> events_time_estimate(date), cached |-> TRUE,
                  live |-> IF is_ticketmaster_available THEN ticketmaster_events.live ELSE "none",
                  geocoder |-> is_ticketmaster_available /\ ticketmaster_events.geocoder,
                  coords |-> IF is_ticketmaster_available THEN ticketmaster_events.coords
                             ELSE "none",
                  providers |-> (IF is_ticketmaster_available THEN ticketmaster_events.providers
                                 ELSE {}) \cup {"eventbrite"}]

\* get_events_data past the cache check; it asks a new
\* TicketmasterEventsScraper, whose cache is empty, and no other provider
get_events_data(is_ticketmaster_available, coords, geocode, response, date) ==
    LET ticketmaster_events == get_events(is_ticketmaster_available, coords, geocode, response, date)
    IN  IF is_ticketmaster_available /\ ticketmaster_events.data.source = "ticketmaster"
            THEN [data |-> [events_found |-> ticketmaster_events.data.events_found,
                            demand_multiplier |-> ticketmaster_events.data.demand_multiplier,
                            source |-> "ticketmaster"],
                  cached |-> TRUE, live |-> "ok", geocoder |-> ticketmaster_events.geocoder,
                  coords |-> ticketmaster_events.coords,
                  providers |-> ticketmaster_events.providers]
            ELSE [data |-> events_time_estimate(date), cached |-> TRUE,
                  live |-> IF is_ticketmaster_available THEN ticketmaster_events.live ELSE "none",
                  geocoder |-> is_ticketmaster_available /\ ticketmaster_events.geocoder,
                  coords |-> IF is_ticketmaster_available THEN ticketmaster_events.coords
                             ELSE "none",
                  providers |-> IF is_ticketmaster_available THEN ticketmaster_events.providers
                                ELSE {}]

TrafficEstimateUntagged(current_hour) ==
    IF (7 <= current_hour /\ current_hour <= 9) \/ (17 <= current_hour /\ current_hour <= 19)
        THEN [traffic_factor |-> 1200, source |-> ""]
    ELSE IF 10 <= current_hour /\ current_hour <= 15
        THEN [traffic_factor |-> 1100, source |-> ""]
    ELSE [traffic_factor |-> 1000, source |-> ""]

\* the time-of-day estimate of get_traffic_data
traffic_time_estimate(current_hour) ==
    IF (7 <= current_hour /\ current_hour <= 9) \/ (17 <= current_hour /\ current_hour <= 19)
        THEN [traffic_factor |-> 1200, source |-> "estimate"]
    ELSE IF 10 <= current_hour /\ current_hour <= 15
        THEN [traffic_factor |-> 1100, source |-> "estimate"]
    ELSE [traffic_factor |-> 1000, source |-> "estimate"]

\* get_traffic_data past the cache check
get_traffic_data(is_traffic_available, coords, geocode, response, current_hour) ==
    \* traffic_factor = 1.0 + 0.3 * (duration_in_traffic / duration - 1.0)
    LET traffic_from_response(response_) ==
            CASE response_ = "free_flow" -> [traffic_factor |-> 700, source |-> "google_maps"]
              [] response_ = "jammed" -> [traffic_factor |-> 4000, source |-> "google_maps"]
              [] OTHER -> [traffic_factor |-> 1000, source |-> "estimate"]
    IN
    IF is_traffic_available /\ ~coords /\ geocode = "failed"
        THEN [data |-> [traffic_factor |-> 1000, source |-> "estimate"],
              cached |-> FALSE, live |-> "none", geocoder |-> TRUE, coords |-> "none"]
    ELSE IF is_traffic_available /\ traffic_from_response(response).source = "google_maps"
        THEN [data |-> traffic_from_response(response),
              cached |-> TRUE, live |-> "ok", geocoder |-> ~coords,
              coords |-> provider_coords(coords)]
    ELSE [data |-> traffic_time_estimate(current_hour), cached |-> TRUE,
          live |-> IF is_traffic_available THEN live_outcome(response) ELSE "none",
          geocoder |-> is_traffic_available /\ ~coords,
          coords |-> IF is_traffic_available THEN provider_coords(coords) ELSE "none"]

\* _get_state_from_location: the state names that occur in the location
state_from_location(location) == IF location = "new york" THEN "NY" ELSE "none"

\* get_gas_prices past the cache check; the reverse geocoder is asked for
\* the state only if the name has none and coordinates are given
get_gas_prices(location, coords, response) ==
    LET regional_price(state) ==
            CASE state = "CA" -> 5250
              [] state = "NY" -> 4800
              [] state = "TX" -> 3900
              [] OTHER -> 0
    IN
    LET asked == state_from_location(location) = "none" /\ coords
        state == IF state_from_location(location) # "none" THEN state_from_location(location)
                 ELSE IF coords /\ response \notin LiveFailures THEN response
                 ELSE "none"
    IN  [data |-> IF regional_price(state) > 0
                     THEN [price_per_gallon |-> regional_price(state), source |-> "regional_average"]
                     ELSE [price_per_gallon |-> GAS_PRICE_PER_GALLON, source |-> "default"],
         cached |-> TRUE,
         live |-> IF asked THEN live_outcome(response) ELSE "none",
         geocoder |-> FALSE, coords |-> IF asked THEN "request" ELSE "none"]

StartHours == {3, 9}

current_hour(t) == (start_hour + t \div 3600) % 24

\* self.cache_ttl of LiveDataScraper and of TicketmasterEventsScraper
cache_ttl == 300
ticketmaster_cache_ttl == 3600

CacheValidInclusive(c, key, t, ttl) ==
    key \in DOMAIN c /\ t - c[key].timestamp <= ttl

\* if cache_key in self.cache: ... if now - timestamp < ttl: return cached_data
cache_valid(c, key, t, ttl) ==
    key \in DOMAIN c /\ t - c[key].timestamp < ttl

\* the two requests the clients are asked about: cache keys are built from
\* the location, the date and the hour
ClientKeys ==
    { [location |-> "san francisco", hour |-> 18, days_ahead |-> 3,
       date |-> [ok |-> TRUE, weekday |-> 5, month |-> 11, today_weekday |-> 1, today_month |-> 4]],
      [location |-> "new york", hour |-> 3, days_ahead |-> 0,
       date |-> [ok |-> TRUE, weekday |-> 1, month |-> 1, today_weekday |-> 1, today_month |-> 4]] }

\* __init__: a client is constructed with an empty cache, at some hour of
\* the day
NewClient ==
    /\ client = "none"
    /\ client' \in SourceClients
    /\ start_hour' \in (IF client' = "traffic" THEN StartHours ELSE {start_hour})
    /\ cache' = << >>
    /\ UNCHANGED <<now, call, api_vars>>

\* a client call: the cache check, then on a miss the fetch and its store
Fetch(c, key, fetched) ==
    \* the part of the request a client's cache key is made of
    LET cache_key(c_, key_) ==
            CASE c_ = "weather" -> <<"weather", key_.location, key_.date, key_.hour>>
              [] c_ = "events" -> <<"events", key_.location, key_.date>>
              [] c_ = "traffic" -> <<"traffic", key_.location>>
              [] c_ = "gas" -> <<"gas", key_.location>>
              [] c_ = "ticketmaster" -> <<"ticketmaster_events", key_.location, key_.date>>
    IN
    \* the TTL each cache check compares the age with
    LET ttl_of(c_) ==
            CASE c_ = "weather" -> cache_ttl
              [] c_ = "events" -> cache_ttl
              [] c_ = "traffic" -> 300
              [] c_ = "gas" -> 3600
              [] c_ = "ticketmaster" -> ticketmaster_cache_ttl
    IN
    LET k == cache_key(c, key)
        hit == cache_valid(cache, k, now, ttl_of(c))
    IN  /\ client = c
        /\ call' = [client |-> c, key |-> k, at |-> now,
                    had_entry |-> k \in DOMAIN cache,
                    age |-> IF k \in DOMAIN cache THEN now - cache[k].timestamp ELSE 0,
                    hit |-> hit,
                    live |-> IF hit THEN "none" ELSE fetched.live,
                    geocoder |-> IF hit THEN FALSE ELSE fetched.geocoder,
                    cached |-> IF hit THEN FALSE ELSE fetched.cached,
                    data |-> IF hit THEN cache[k].data ELSE fetched.data]
        /\ cache' = IF ~hit /\ fetched.cached
                        THEN (k :> [data |-> fetched.data, timestamp |-> now]) @@ cache
                        ELSE cache
        /\ UNCHANGED <<client, now, start_hour, api_vars>>

\* the geocoder is asked only if a key is configured and the request has
\* no coordinates; the provider only if the place is then known
GeocodeAsked(key_available, coords) ==
    LET GeocodeOutcomes == {"ok", "failed"}
    IN
    IF key_available /\ ~coords THEN GeocodeOutcomes ELSE {"ok"}

ProviderAsked(key_available, geocode, responses) ==
    \* the outcomes of a call the code does not reach
    LET NotAsked == {"none"}
    IN
    IF key_available /\ geocode = "ok" THEN responses ELSE NotAsked

GetWeatherData ==
    \E key \in ClientKeys, is_weather_available \in BOOLEAN, coords \in BOOLEAN :
    \E geocode \in GeocodeAsked(is_weather_available, coords) :
    \E response \in ProviderAsked(is_weather_available, geocode, WeatherResponses) :
        Fetch("weather", key,
              get_weather_data(is_weather_available, coords, geocode,
                               1 <= key.days_ahead /\ key.days_ahead <= 5, response, key.date))

GetEventsData ==
    \E key \in ClientKeys, is_ticketmaster_available \in BOOLEAN, coords \in BOOLEAN :
    \E geocode \in GeocodeAsked(is_ticketmaster_available, coords) :
    \E response \in ProviderAsked(is_ticketmaster_available, geocode, TicketmasterResponses) :
        Fetch("events", key,
              get_events_data(is_ticketmaster_available, coords, geocode, response, key.date))

GetTrafficData ==
    \E key \in ClientKeys, is_traffic_available \in BOOLEAN, coords \in BOOLEAN :
    \E geocode \in GeocodeAsked(is_traffic_available, coords) :
    \E response \in ProviderAsked(is_traffic_available, geocode, TrafficResponses) :
        Fetch("traffic", key,
              get_traffic_data(is_traffic_available, coords, geocode, response, current_hour(now)))

GetGasPrices ==
    \E key \in ClientKeys, coords \in BOOLEAN :
    \E response \in ProviderAsked(coords /\ state_from_location(key.location) = "none",
                                  "ok", StateResponses) :
        Fetch("gas", key, get_gas_prices(key.location, coords, response))

GetEvents ==
    \E key \in ClientKeys, api_key \in BOOLEAN, coords \in BOOLEAN :
    \E geocode \in GeocodeAsked(api_key, coords) :
    \E response \in ProviderAsked(api_key, geocode, TicketmasterResponses) :
        Fetch("ticketmaster", key, get_events(api_key, coords, geocode, response, key.date))

\* ------------------------------------------------------------------------
\* api_server: GET /api/earnings
\* ------------------------------------------------------------------------
CACHE_TTL_SECONDS == 3600

NoCoord == 0

\* the requests: a city name, or coordinates in 1/10000 degree; two of the
\* coordinate pairs agree to two decimals
RequestDate == [ok |-> TRUE, weekday |-> 5, month |-> 11, today_weekday |-> 1, today_month |-> 4]

has_coords(req) == req.lat # NoCoord /\ req.lng # NoCoord

\* location = f"{lat_val:.4f},{lng_val:.4f}", else the name, else the default
request_location(req) ==
    IF has_coords(req) THEN [name |-> "", lat |-> req.lat, lng |-> req.lng]
    ELSE IF req.location = "" THEN [name |-> "San Francisco", lat |-> NoCoord, lng |-> NoCoord]
    ELSE [name |-> req.location, lat |-> NoCoord, lng |-> NoCoord]

get_cache_key(location, date, target_hour) ==
    \* f"{x:.2f}" of a coordinate given in 1/10000 degree
    LET two_decimals(x) == (x + 50) \div 100
    IN
    IF location.name = ""
        THEN <<"earnings", two_decimals(location.lat), two_decimals(location.lng), date, target_hour>>
        ELSE <<"earnings", location.name, date, target_hour>>

ScraperOutcomes == {"ok", "raised"}

\* _check_forecasters: the flag stays set once both modules were imported
check_forecasters(available, import) == available \/ import = "ok"

ForecasterUnguarded(available, import, instance, construct) ==
    IF ~check_forecasters(available, import) THEN "None"
    ELSE IF instance \/ construct = "ok" THEN "fc"
    ELSE "raise"

get_rideshare_forecaster(available, import, instance, construct) ==
    IF ~check_forecasters(available, import) THEN "None"
    ELSE IF instance \/ construct = "ok" THEN "fc"
    ELSE "None"

get_delivery_forecaster(available, import, instance, construct) ==
    IF ~check_forecasters(available, import) THEN "None"
    ELSE IF instance \/ construct = "ok" THEN "fc"
    ELSE "None"

Pick(services, wanted, source) ==
    LET Prediction(service, source_) == [service |-> service, source |-> source_]
    IN
    SelectSeq([i \in 1..Len(services) |-> Prediction(services[i], source)],
              LAMBDA p : p.service \in wanted)

\* the rideshare block of the legacy code: config defaults without a
\* forecaster (Uber is appended whatever the filter), else the forecast
rideshare_predictions(fc, service_filter) ==
    IF fc = "None"
        THEN Pick(<<"Uber", "Lyft">>,
                  {"Uber"} \cup (IF service_filter \in {"all", "Lyft"} THEN {"Lyft"} ELSE {}),
                  "config_defaults")
        ELSE Pick(<<"Uber", "Lyft">>,
                  IF service_filter = "all" THEN {"Uber", "Lyft"} ELSE {service_filter},
                  "forecaster")

\* the delivery block of the legacy code
delivery_predictions(fc, service_filter) ==
    Pick(<<"DoorDash", "UberEats", "GrubHub">>,
         IF service_filter = "all" THEN {"DoorDash", "UberEats", "GrubHub"} ELSE {service_filter},
         IF fc = "None" THEN "config_defaults" ELSE "forecaster")

\* the predictions of ImprovedEarningsScraper.get_all_estimates
improved_predictions ==
    Pick(<<"Uber", "Lyft", "DoorDash", "UberEats", "GrubHub">>,
         {"Uber", "Lyft", "DoorDash", "UberEats", "GrubHub"}, "improved")

\* the improved scraper is used only if it was imported, coordinates came
\* with the request (lat_val and lng_val are unbound otherwise) and it
\* does not raise
improved_path(req, scraper) ==
    improved_scraper_available /\ has_coords(req) /\ scraper = "ok"

GetEarnings ==
    LET Requests ==
            [location : {"San Francisco"}, lat : {NoCoord}, lng : {NoCoord},
             date : {RequestDate}, hour : {18}, service : {"all"}]
            \cup
            [location : {""}, lat : {377749, 377751}, lng : {0 - 1224194},
             date : {RequestDate}, hour : {18}, service : {"all"}]
    IN
    /\ client = "earnings"
    /\ \E req \in Requests, scraper \in ScraperOutcomes :
        LET import == environment.import
            construct_rideshare == environment.construct_rideshare
            construct_delivery == environment.construct_delivery
            location == request_location(req)
            k == get_cache_key(location, req.date, req.hour)
            hit == cache_valid(cache, k, now, CACHE_TTL_SECONDS)
            needs_rideshare == req.service \in {"all", "Uber", "Lyft"}
            needs_delivery == req.service \in {"all", "DoorDash", "UberEats", "GrubHub"}
            fc == IF needs_rideshare
                    THEN get_rideshare_forecaster(forecasters_available, import,
                                                  rideshare_forecaster, construct_rideshare)
                    ELSE "unused"
            fc_delivery == IF needs_delivery
                    THEN get_delivery_forecaster(forecasters_available, import,
                                                 delivery_forecaster, construct_delivery)
                    ELSE "unused"
            legacy == (IF needs_rideshare THEN rideshare_predictions(fc, req.service) ELSE << >>)
                      \o (IF needs_delivery THEN delivery_predictions(fc_delivery, req.service) ELSE << >>)
            improved_body == [fields |-> {"location", "date", "timeSlot", "predictions"},
                              location |-> location, predictions |-> improved_predictions]
            improved_entry == [fields |-> {"predictions", "metadata"},
                               location |-> << >>, predictions |-> improved_predictions]
            response_data == [fields |-> {"location", "date", "timeSlot", "hour",
                                          "predictions", "metadata"},
                              location |-> location, predictions |-> legacy]
            error_body == [fields |-> {"error", "message"}, location |-> << >>,
                           predictions |-> << >>]
            answer ==
                IF hit THEN [status |-> 200, path |-> "cache", body |-> cache[k].data,
                             entry |-> cache[k].data, live |-> FALSE]
                ELSE IF improved_path(req, scraper)
                    THEN [status |-> 200, path |-> "improved", body |-> improved_body,
                          entry |-> improved_entry, live |-> TRUE]
                ELSE IF "raise" \in {fc, fc_delivery}
                    THEN [status |-> 500, path |-> "error", body |-> error_body,
                          entry |-> error_body,
                          live |-> improved_scraper_available /\ has_coords(req)]
                ELSE [status |-> 200,
                      path |-> IF "fc" \in {fc, fc_delivery} THEN "legacy" ELSE "config_defaults",
                      body |-> response_data, entry |-> response_data,
                      live |-> \/ improved_scraper_available /\ has_coords(req)
                               \/ "fc" \in {fc, fc_delivery}]
            stores == answer.path \in {"improved", "legacy", "config_defaults"}
            asked == ~hit /\ ~improved_path(req, scraper)
        IN  /\ reply' = [status |-> answer.status, path |-> answer.path, request |-> req,
                            live |-> answer.live, body |-> answer.body]
            /\ call' = [client |-> "earnings", key |-> k, at |-> now,
                        had_entry |-> k \in DOMAIN cache,
                        age |-> IF k \in DOMAIN cache THEN now - cache[k].timestamp ELSE 0,
                        hit |-> hit,
                        live |-> IF answer.live THEN "ok" ELSE "none",
                        geocoder |-> FALSE, cached |-> stores, data |-> answer.body]
            /\ cache' = IF stores
                            THEN (k :> [data |-> answer.entry, timestamp |-> now]) @@ cache
                            ELSE cache
            /\ stored_by' = IF stores
                                THEN (k :> [request |-> req, body |-> answer.body]) @@ stored_by
                                ELSE stored_by
            /\ forecasters_available' =
                    IF asked THEN check_forecasters(forecasters_available, import)
                    ELSE forecasters_available
            /\ rideshare_forecaster' = (rideshare_forecaster \/ (asked /\ fc = "fc"))
            /\ delivery_forecaster' = (delivery_forecaster \/ (asked /\ fc_delivery = "fc"))
    /\ UNCHANGED <<client, now, start_hour, improved_scraper_available, environment>>

\* the server is started, with or without the improved scraper's module
StartServer ==
    LET Environments ==
            LET ConstructOutcomes == {"ok", "raised"}
            IN
            [import : {"ImportError"}, construct_rideshare : {"raised"}, construct_delivery : {"raised"}]
            \cup [import : {"ok"}, construct_rideshare : ConstructOutcomes,
                   construct_delivery : ConstructOutcomes]
    IN
    /\ client = "none"
    /\ client' = "earnings"
    /\ improved_scraper_available' \in BOOLEAN
    /\ environment' \in Environments
    /\ cache' = << >>
    /\ UNCHANGED <<now, start_hour, call, forecasters_available, rideshare_forecaster,
                   delivery_forecaster, stored_by, reply>>

\* the wall clock advances
Tick ==
    \* the instants the clock takes: the ages around the two TTLs
    LET ClockInstants == {0, 299, 300, 3599, 3600}
    IN
    /\ client # "none"
    /\ \E t \in ClockInstants : t > now /\ now' = t
    /\ UNCHANGED <<client, start_hour, cache, call, api_vars>>

\* ------------------------------------------------------------------------
\* get_all_estimates with its source clients
\* ------------------------------------------------------------------------
\* coordinates in 1/10000 degree: none, San Francisco, and a point of the
\* Greenwich meridian
NoPlace == [given |-> FALSE, lat |-> 0, lng |-> 0]

Places ==
    { NoPlace,
      [given |-> TRUE, lat |-> 377749, lng |-> 0 - 1224194],
      [given |-> TRUE, lat |-> 514779, lng |-> 0] }

\* "lat and lng", "not (not lat or not lng)": None and 0.0 are both false
coords_truthy(place) == place.given /\ place.lat # 0 /\ place.lng # 0

\* the city names of the table _approximate_city_from_coords searches by
\* coordinates
major_cities ==
    {"san francisco", "new york", "los angeles", "chicago", "seattle", "boston", "austin",
     "miami", "denver", "portland", "philadelphia", "san diego", "dallas", "houston", "atlanta"}

GeocodeTableFirst(location) == location \notin major_cities

\* _geocode_location: whether the name is sent to Nominatim
geocode_location_asks(location) == TRUE

\* the requests of get_all_estimates: those of the clients, and one whose
\* date strptime rejects
SourceKeys ==
    ClientKeys \cup
    { [location |-> "springfield", hour |-> 12, days_ahead |-> 0,
       date |-> [ok |-> FALSE, weekday |-> 0, month |-> 0, today_weekday |-> 5, today_month |-> 7]] }

\* get_event_boost is 0.0 unless Ticketmaster answered with events
BoostAsked(events_reading) ==
    IF events_reading.data.source = "ticketmaster" THEN EventBoosts ELSE {0}

\* one get_all_estimates call of a new ImprovedEarningsScraper: every
\* provider answers the call's requests the same way
EstimateWithSources ==
    /\ src_pc = "idle"
    /\ \E key \in SourceKeys, place \in Places, wall_hour \in StartHours,
          is_weather_available \in BOOLEAN, is_ticketmaster_available \in BOOLEAN,
          is_traffic_available \in BOOLEAN :
       LET coords == coords_truthy(place) IN
       \E geocode \in GeocodeAsked(is_weather_available \/ is_ticketmaster_available
                                       \/ is_traffic_available, coords) :
       \E weather_response \in ProviderAsked(is_weather_available, geocode, WeatherResponses),
          events_response \in ProviderAsked(is_ticketmaster_available, geocode,
                                             TicketmasterResponses),
          traffic_response \in ProviderAsked(is_traffic_available, geocode, TrafficResponses),
          state_response \in ProviderAsked(coords /\ state_from_location(key.location) = "none",
                                            "ok", StateResponses) :
        LET weather_data == get_weather_data(is_weather_available, coords, geocode,
                                1 <= key.days_ahead /\ key.days_ahead <= 5,
                                weather_response, key.date)
            events_data == get_events_data(is_ticketmaster_available, coords, geocode,
                                events_response, key.date)
            traffic_data == get_traffic_data(is_traffic_available, coords, geocode,
                                traffic_response, wall_hour)
            gas_data == get_gas_prices(key.location, coords, state_response)
        IN  \E event_boost \in BoostAsked(events_data) :
            /\ src_in' = [key |-> key, place |-> place,
                          available |-> [weather |-> is_weather_available,
                                         events |-> is_ticketmaster_available,
                                         traffic |-> is_traffic_available]]
            /\ sources' = [c \in {"weather", "events", "traffic", "gas"} |->
                    LET reading == CASE c = "weather" -> weather_data
                                     [] c = "events" -> events_data
                                     [] c = "traffic" -> traffic_data
                                     [] c = "gas" -> gas_data
                    IN  [live |-> reading.live, source |-> reading.data.source,
                         geocoder |-> reading.geocoder,
                         nominatim |-> reading.geocoder /\ geocode_location_asks(key.location),
                         coords |-> reading.coords,
                         providers |-> IF c = "events" THEN reading.providers ELSE {},
                         data |-> reading.data]]
            /\ src_predictions' = get_all_estimates(key.location, key.date, key.hour,
                    [weather_multiplier |-> weather_data.data.multiplier,
                     event_multiplier |-> events_data.data.demand_multiplier,
                     event_boost |-> event_boost,
                     traffic_factor |-> traffic_data.data.traffic_factor,
                     price_per_gallon |-> gas_data.data.price_per_gallon])
    /\ src_pc' = "done"

\* ------------------------------------------------------------------------
\* the legacy forecasters: UberEarningsForecaster (scrape.py) and
\* DeliveryEarningsForecaster (delivery_forecaster.py), and the legacy
\* block of get_earnings that builds predictions from them
\* ------------------------------------------------------------------------
AVG_TRIP_DURATION_MINUTES == 18
AVG_DELIVERY_DURATION_MINUTES == 10

\* DEADTIME_CONFIG and DELIVERY_DEADTIME_CONFIG, minutes in thousandths
DEADTIME_CONFIG ==
    [avg_wait_time_minutes |-> 12000, avg_pickup_time_minutes |-> 7000,
     deadtime_factors |->
        << 1800, 2000, 2200, 2200, 1800, 1400,
           1200, 1000, 800, 800, 800, 800,
           800, 800, 900, 800, 800, 700,
           700, 800, 900, 1100, 1400, 1600 >>,
     min_deadtime_minutes |-> 5000, max_deadtime_minutes |-> 25000]

DELIVERY_DEADTIME_CONFIG ==
    [avg_wait_time_minutes |-> 6000, avg_pickup_time_minutes |-> 4000,
     restaurant_wait_minutes |-> 5000,
     deadtime_factors |->
        << 2000, 2500, 2500, 2500, 2000, 1500,
           1300, 1100, 1000, 900, 800, 700,
           500, 600, 1000, 1200, 900, 600,
           500, 600, 700, 900, 1300, 1700 >>,
     min_deadtime_minutes |-> 3000, max_deadtime_minutes |-> 15000]

STACKED_ORDERS_CONFIG == [min_demand_ratio |-> 1500, efficiency_multiplier |-> 1300]

\* demand / supply if supply > 0 else 0, in thousandths
demand_supply_ratio(demand, supply) == IF supply > 0 THEN (demand * 1000) \div supply ELSE 0

\* UberEarningsForecaster.calculate_deadtime
rideshare_deadtime(target_hour, congestion_level, ratio) ==
    LET deadtime_factor == DEADTIME_CONFIG.deadtime_factors[target_hour + 1]
        wait_time_multiplier ==
            IF ratio > 1000 THEN Max(300, 1000 - Mul(ratio - 1000, 200))
            ELSE 1000 + Mul(1000 - ratio, 500)
        adjusted_wait_time ==
            Mul(Mul(DEADTIME_CONFIG.avg_wait_time_minutes, deadtime_factor), wait_time_multiplier)
        adjusted_pickup_time ==
            Mul(DEADTIME_CONFIG.avg_pickup_time_minutes, 1000 + Mul(congestion_level, 300))
    IN  Max(DEADTIME_CONFIG.min_deadtime_minutes,
            Min(adjusted_wait_time + adjusted_pickup_time, DEADTIME_CONFIG.max_deadtime_minutes))

\* DeliveryEarningsForecaster.calculate_deadtime
delivery_deadtime(target_hour, ratio) ==
    LET deadtime_factor == DELIVERY_DEADTIME_CONFIG.deadtime_factors[target_hour + 1]
        wait_multiplier == IF ratio > 1500 THEN 400 ELSE IF ratio > 1000 THEN 700 ELSE 1500
        adjusted_wait ==
            Mul(Mul(DELIVERY_DEADTIME_CONFIG.avg_wait_time_minutes, deadtime_factor), wait_multiplier)
        restaurant_wait ==
            IF target_hour \in {12, 13, 18, 19}
                THEN Mul(DELIVERY_DEADTIME_CONFIG.restaurant_wait_minutes, 1300)
                ELSE DELIVERY_DEADTIME_CONFIG.restaurant_wait_minutes
    IN  Max(DELIVERY_DEADTIME_CONFIG.min_deadtime_minutes,
            Min(adjusted_wait + DELIVERY_DEADTIME_CONFIG.avg_pickup_time_minutes + restaurant_wait,
                DELIVERY_DEADTIME_CONFIG.max_deadtime_minutes))

\* 60 / (duration + deadtime), trips per hour in thousandths
max_per_hour(duration_minutes, total_deadtime_minutes) ==
    (60 * 1000 * 1000) \div (duration_minutes * 1000 + total_deadtime_minutes)

\* UberEarningsForecaster.calculate_net_earnings
rideshare_net_earnings(demand, supply, earnings_per_trip, costs, total_deadtime_minutes) ==
    LET legacy_surge_multiplier(ratio) ==
            IF ratio > 2000 THEN Min(1300, 1000 + Mul(ratio - 2000, 100))
            ELSE IF ratio > 1500 THEN 1000 + Mul(ratio - 1500, 50)
            ELSE 1000
    IN
    LET ratio == demand_supply_ratio(demand, supply)
        max_trips_per_hour == max_per_hour(AVG_TRIP_DURATION_MINUTES, total_deadtime_minutes)
        trips_per_driver == Min(ratio, max_trips_per_hour)
        surge == legacy_surge_multiplier(ratio)
        gross_hourly == Mul(Mul(trips_per_driver, earnings_per_trip), surge)
    IN  [trips_per_driver |-> trips_per_driver,
         surge_multiplier |-> surge,
         gross_hourly_earnings |-> gross_hourly,
         net_hourly_earnings |-> gross_hourly - costs,
         deadtime_impact |-> total_deadtime_minutes]

\* if demand_supply_ratio > STACKED_ORDERS_CONFIG['min_demand_ratio']
StackingAtThreshold(ratio) ==
    IF ratio >= STACKED_ORDERS_CONFIG.min_demand_ratio
        THEN STACKED_ORDERS_CONFIG.efficiency_multiplier
        ELSE 1000

stacking_factor(ratio) ==
    IF ratio > STACKED_ORDERS_CONFIG.min_demand_ratio
        THEN STACKED_ORDERS_CONFIG.efficiency_multiplier
        ELSE 1000

\* DeliveryEarningsForecaster.calculate_net_earnings
delivery_net_earnings(demand, supply, earnings_per_delivery, costs, target_hour, total_deadtime_minutes) ==
    LET ratio == demand_supply_ratio(demand, supply)
        max_deliveries_per_hour ==
            Mul(max_per_hour(AVG_DELIVERY_DURATION_MINUTES, total_deadtime_minutes),
                stacking_factor(ratio))
        deliveries_per_driver == Min(ratio, max_deliveries_per_hour)
        gross_hourly == Mul(deliveries_per_driver, earnings_per_delivery)
    IN  [deliveries_per_driver |-> deliveries_per_driver,
         stacking_factor |-> stacking_factor(ratio),
         gross_hourly_earnings |-> gross_hourly,
         net_hourly_earnings |-> gross_hourly - costs,
         peak_pay_multiplier |-> IF target_hour \in {12, 13, 18, 19} THEN 1200 ELSE 1000,
         deadtime_impact |-> total_deadtime_minutes]

\* the two rideshare predictions of the legacy block for a forecast
legacy_rideshare_predictions(results) ==
    << [service |-> "Uber", path |-> "forecaster",
        min |-> Round2(Max(10000, results.net_hourly_earnings - 5000)),
        max |-> Round2(results.net_hourly_earnings + 5000),
        tripsPerHour |-> Round2(results.trips_per_driver)],
       [service |-> "Lyft", path |-> "forecaster",
        min |-> Round2(Max(10000, Mul(results.net_hourly_earnings - 5000, 920))),
        max |-> Round2(Mul(results.net_hourly_earnings + 5000, 920)),
        tripsPerHour |-> Round2(Mul(results.trips_per_driver, 900))] >>

\* the rideshare predictions when get_rideshare_forecaster() is None
fallback_rideshare_predictions(target_hour) ==
    LET rideshare_time_factor == DEMAND_TIME_FACTORS[target_hour + 1]
        base_earnings == Mul(25 * rideshare_time_factor, 1200)
    IN  << [service |-> "Uber", path |-> "config_defaults",
            min |-> Round2(Max(10000, base_earnings - 5000)),
            max |-> Round2(base_earnings + 5000),
            tripsPerHour |-> Round2(2 * rideshare_time_factor)],
           [service |-> "Lyft", path |-> "config_defaults",
            min |-> Round2(Max(10000, Mul(base_earnings - 5000, 920))),
            max |-> Round2(Mul(base_earnings + 5000, 920)),
            tripsPerHour |-> Round2(Mul(2 * rideshare_time_factor, 900))] >>

DeliveryServices == <<"DoorDash", "UberEats", "GrubHub">>

\* one delivery prediction of the legacy block for a forecast
legacy_delivery_prediction(service, results) ==
    [service |-> service, path |-> "forecaster",
     min |-> Round2(Max(12000, results.net_hourly_earnings - 6000)),
     max |-> Round2(results.net_hourly_earnings + 6000),
     tripsPerHour |-> IF service = "UberEats"
                         THEN Round2(Mul(results.deliveries_per_driver, 950))
                         ELSE Round2(results.deliveries_per_driver)]

\* the delivery predictions when get_delivery_forecaster() is None
fallback_delivery_predictions(target_hour) ==
    LET delivery_time_factor == DELIVERY_DEMAND_TIME_FACTORS[target_hour + 1]
        base_delivery_earnings == Mul(22 * delivery_time_factor, 1300)
        delivery_trips == Mul(2500, delivery_time_factor)
        scaled(service) == CASE service = "UberEats" -> Mul(base_delivery_earnings, 950)
                             [] service = "GrubHub" -> Mul(base_delivery_earnings, 1050)
                             [] OTHER -> base_delivery_earnings
    IN  [i \in 1..3 |->
            [service |-> DeliveryServices[i], path |-> "config_defaults",
             min |-> Round2(Max(12000, scaled(DeliveryServices[i]) - 6000)),
             max |-> Round2(scaled(DeliveryServices[i]) + 6000),
             tripsPerHour |-> IF DeliveryServices[i] = "UberEats"
                                 THEN Round2(Mul(delivery_trips, 950))
                                 ELSE Round2(delivery_trips)]]

\* what the forecasters estimate: trips and drivers per hour, congestion in
\* thousandths, money in thousandths of a dollar
LegacyDemands == {500, 3000, 4400, 9000}
LegacySupplies == {0, 2000}
NoForecast == [fc |-> "None", demand |-> 0, supply |-> 0, congestion_level |-> 0,
               earnings |-> 0, costs |-> 0]

NoResults == [net_hourly_earnings |-> 0, gross_hourly_earnings |-> 0, deadtime_impact |-> 0]

\* the legacy block of get_earnings for service filter 'all'; the three
\* delivery services are given the same earnings per delivery
LegacyForecast ==
    LET DeliveryForecasts ==
            LET DeliveryCosts == {3500, 9000}
            IN
            LET DeliveryEarnings == {4000, 12000}
            IN
            {NoForecast} \cup
            [fc : {"fc"}, demand : LegacyDemands, supply : LegacySupplies,
             congestion_level : {0}, earnings : DeliveryEarnings, costs : DeliveryCosts]
    IN
    LET RideshareForecasts ==
            LET RideshareCosts == {4500, 15000}
            IN
            LET TripEarnings == {5200, 20000}
            IN
            LET CongestionLevels == {0, 800}
            IN
            {NoForecast} \cup
            [fc : {"fc"}, demand : LegacyDemands, supply : LegacySupplies,
             congestion_level : CongestionLevels, earnings : TripEarnings, costs : RideshareCosts]
    IN
    /\ leg_pc = "idle"
    /\ \E target_hour \in Hours, r \in RideshareForecasts, d \in DeliveryForecasts :
        LET rideshare_results ==
                rideshare_net_earnings(r.demand, r.supply, r.earnings, r.costs,
                    rideshare_deadtime(target_hour, r.congestion_level,
                                       demand_supply_ratio(r.demand, r.supply)))
            delivery_results ==
                delivery_net_earnings(d.demand, d.supply, d.earnings, d.costs, target_hour,
                    delivery_deadtime(target_hour, demand_supply_ratio(d.demand, d.supply)))
        IN  /\ leg_in' = [hour |-> target_hour, rideshare |-> r, delivery |-> d]
            /\ leg_results' = [rideshare |-> IF r.fc = "fc" THEN rideshare_results ELSE NoResults,
                               delivery |-> IF d.fc = "fc" THEN delivery_results ELSE NoResults]
            /\ leg_predictions' =
                  (IF r.fc = "fc" THEN legacy_rideshare_predictions(rideshare_results)
                   ELSE fallback_rideshare_predictions(target_hour))
                  \o (IF d.fc = "fc"
                         THEN [i \in 1..3 |->
                                 legacy_delivery_prediction(DeliveryServices[i], delivery_results)]
                         ELSE fallback_delivery_predictions(target_hour))
    /\ leg_pc' = "done"

\* ------------------------------------------------------------------------
\* one estimate asked twice: two new ImprovedEarningsScraper instances
\* (empty caches), the same request, the same provider answers, two
\* wall-clock hours
\* ------------------------------------------------------------------------
\* the readings the four clients of one scraper return for a request
source_readings(inp, wall_hour) ==
    LET coords == coords_truthy(inp.place)
    IN  [weather |-> get_weather_data(inp.is_weather_available, coords, inp.geocode,
                         1 <= inp.key.days_ahead /\ inp.key.days_ahead <= 5,
                         inp.weather_response, inp.key.date).data,
         events |-> get_events_data(inp.is_ticketmaster_available, coords, inp.geocode,
                         inp.events_response, inp.key.date).data,
         traffic |-> get_traffic_data(inp.is_traffic_available, coords, inp.geocode,
                         inp.traffic_response, wall_hour).data,
         gas |-> get_gas_prices(inp.key.location, coords, inp.state_response).data]

\* get_all_estimates over those readings
estimate_with(inp, wall_hour) ==
    LET readings == source_readings(inp, wall_hour)
    IN  [readings |-> readings,
         predictions |->
            get_all_estimates(inp.key.location, inp.key.date, inp.key.hour,
                [weather_multiplier |-> readings.weather.multiplier,
                 event_multiplier |-> readings.events.demand_multiplier,
                 event_boost |-> inp.event_boost,
                 traffic_factor |-> readings.traffic.traffic_factor,
                 price_per_gallon |-> readings.gas.price_per_gallon])]

\* the first scraper answers the request
FirstEstimate ==
    /\ twin_pc = "idle"
    /\ \E key \in SourceKeys, place \in Places, wall_hour \in StartHours,
          is_weather_available \in BOOLEAN, is_ticketmaster_available \in BOOLEAN,
          is_traffic_available \in BOOLEAN :
       LET coords == coords_truthy(place) IN
       \E geocode \in GeocodeAsked(is_weather_available \/ is_ticketmaster_available
                                       \/ is_traffic_available, coords) :
       \E weather_response \in ProviderAsked(is_weather_available, geocode, WeatherResponses),
          events_response \in ProviderAsked(is_ticketmaster_available, geocode,
                                             TicketmasterResponses),
          traffic_response \in ProviderAsked(is_traffic_available, geocode, TrafficResponses),
          state_response \in ProviderAsked(coords /\ state_from_location(key.location) = "none",
                                            "ok", StateResponses) :
       \E event_boost \in BoostAsked(get_events_data(is_ticketmaster_available, coords, geocode,
                                                     events_response, key.date)) :
        LET inp == [key |-> key, place |-> place, wall_hour |-> wall_hour,
                    is_weather_available |-> is_weather_available,
                    is_ticketmaster_available |-> is_ticketmaster_available,
                    is_traffic_available |-> is_traffic_available,
                    geocode |-> geocode, weather_response |-> weather_response,
                    events_response |-> events_response,
                    traffic_response |-> traffic_response,
                    state_response |-> state_response, event_boost |-> event_boost]
        IN  /\ twin_in' = inp
            /\ twin_first' = estimate_with(inp, wall_hour)
    /\ twin_pc' = "first"
    /\ UNCHANGED twin_second

\* a second scraper answers the same request at some hour of the day; every
\* provider answers as it did
SecondEstimate ==
    /\ twin_pc = "first"
    /\ \E wall_hour \in StartHours :
        /\ twin_in' = [twin_in EXCEPT !.wall_hour = <<twin_in.wall_hour, wall_hour>>]
        /\ twin_second' = estimate_with(twin_in, wall_hour)
    /\ twin_pc' = "done"
    /\ UNCHANGED twin_first

\* ------------------------------------------------------------------------
\* GET /api/earnings/lightweight: the improved scraper, else config defaults
\* ------------------------------------------------------------------------
LightServices == <<"Uber", "Lyft", "DoorDash", "UberEats", "GrubHub">>
\* the locals of the handler before the try block
light_locals ==
    [predictions |-> << >>, use_improved_scraper |-> FALSE, data_sources |-> << >>,
     metadata_note |-> "Using live API data"]

\* the try block, up to the point where it raises
light_try(outcome, all_estimates, probes, service_filter) ==
    \* str.lower() of a service name
    LET lower(name) ==
            CASE name \in {"Uber", "uber"} -> "uber"
              [] name \in {"Lyft", "lyft"} -> "lyft"
              [] name \in {"DoorDash", "Doordash", "doordash"} -> "doordash"
              [] name \in {"UberEats", "Ubereats", "ubereats"} -> "ubereats"
              [] name \in {"GrubHub", "Grubhub", "grubhub"} -> "grubhub"
              [] OTHER -> name
    IN
    IF outcome # "ok" THEN light_locals
    ELSE [predictions |-> SelectSeq(all_estimates,
                              LAMBDA pred : \/ service_filter = "all"
                                            \/ lower(pred.service) = lower(service_filter)),
          use_improved_scraper |-> TRUE,
          data_sources |-> probes,
          metadata_note |-> IF probes # << >> THEN "Live data from" ELSE "Using estimates"]

ExceptKeepsNote(locals) ==
    [locals EXCEPT !.use_improved_scraper = FALSE, !.predictions = << >>]

\* the except block
light_except(locals) ==
    [locals EXCEPT !.use_improved_scraper = FALSE, !.predictions = << >>,
                   !.metadata_note = "Fell back to config defaults"]

\* the config-default predictions of the endpoint
config_default_predictions(target_hour, service_filter) ==
    SelectSeq(fallback_rideshare_predictions(target_hour)
                  \o fallback_delivery_predictions(target_hour),
              LAMBDA pred : service_filter \in {"all", pred.service})

\* the response of the endpoint
light_response(available, outcome, all_estimates, probes, service_filter, target_hour) ==
    LET tried == IF ~available THEN light_locals
                 ELSE IF outcome = "ok"
                     THEN light_try(outcome, all_estimates, probes, service_filter)
                 ELSE light_except(light_try(outcome, all_estimates, probes, service_filter))
    IN  [status |-> 200,
         hour |-> target_hour,
         predictions |-> IF tried.use_improved_scraper THEN tried.predictions
                         ELSE tried.predictions
                                  \o config_default_predictions(target_hour, service_filter),
         metadata |-> [lightweight |-> TRUE,
                       usingLiveData |-> tried.use_improved_scraper,
                       note |-> tried.metadata_note,
                       dataSources |-> IF tried.data_sources # << >> THEN tried.data_sources
                                       ELSE <<"Config defaults">>]]

GetEarningsLightweight ==
    LET LightReadings == {NoReadings,
                          [NoReadings EXCEPT !.weather_multiplier = 1500, !.event_boost = 50]}
    IN
    \* the entries the probes append to data_sources
    LET DataSourceLists ==
            {<< >>, <<"Weather">>, <<"Events">>, <<"Traffic">>, <<"Weather", "Events">>,
             <<"Weather", "Traffic">>, <<"Events", "Traffic">>, <<"Weather", "Events", "Traffic">>}
    IN
    \* where the try block of the endpoint can raise: the constructor of
    \* ImprovedEarningsScraper and get_all_estimates; the three probes of the
    \* data sources are wrapped in their own try blocks
    LET LightOutcomes == {"ok", "construct_raised", "estimate_raised"}
    IN
    LET ServiceFilters == {"all", "Uber", "Lyft", "DoorDash", "UberEats", "GrubHub"}
    IN
    /\ light_pc = "idle"
    /\ \E service_filter \in ServiceFilters, target_hour \in Hours, available \in BOOLEAN :
       \E outcome \in (IF available THEN LightOutcomes ELSE {"unused"}) :
       \E probes \in (IF outcome = "ok" THEN DataSourceLists ELSE {<< >>}),
          r \in (IF outcome = "ok" THEN LightReadings ELSE {NoReadings}) :
        LET date == CHOOSE d \in Dates : d.ok /\ d.weekday = 5
            all_estimates == get_all_estimates("san francisco", date, target_hour, r)
        IN  /\ light_in' = [service |-> service_filter, hour |-> target_hour,
                            improved_scraper_available |-> available, outcome |-> outcome,
                            probes |-> probes, readings |-> r]
            /\ light_reply' = light_response(available, outcome, all_estimates, probes,
                                             service_filter, target_hour)
    /\ light_pc' = "done"

\* ------------------------------------------------------------------------
\* the Ticketmaster requests of one get_all_estimates call: the rideshare
\* estimate and the three delivery estimates each run get_demand_multipliers
\* ------------------------------------------------------------------------
\* get_all_estimates is called on a new ImprovedEarningsScraper
BeginEstimates ==
    /\ tm_pc.step = "idle"
    /\ \E is_ticketmaster_available \in BOOLEAN, place \in Places :
       \E geocode \in GeocodeAsked(is_ticketmaster_available, coords_truthy(place)) :
       \E response \in ProviderAsked(is_ticketmaster_available, geocode, TicketmasterResponses) :
        tm_in' = [is_ticketmaster_available |-> is_ticketmaster_available, place |-> place,
                  geocode |-> geocode, response |-> response,
                  date |-> CHOOSE d \in Dates : d.ok /\ d.weekday = 5]
    /\ tm_pc' = [estimate |-> 1, step |-> "events"]
    /\ UNCHANGED <<tm_cache, tm_queries>>

\* get_demand_multipliers: self.live_scraper.get_events_data
DemandEvents ==
    /\ tm_pc.step = "events"
    /\ LET events_data == get_events_data(tm_in.is_ticketmaster_available,
                              coords_truthy(tm_in.place), tm_in.geocode, tm_in.response,
                              tm_in.date)
       IN  IF tm_cache # {}
               THEN UNCHANGED <<tm_cache, tm_queries>>
               ELSE /\ tm_cache' = {events_data.data}
                    /\ tm_queries' =
                          IF events_data.live # "none"
                              THEN Append(tm_queries, [estimate |-> tm_pc.estimate,
                                                       by |-> "get_events_data"])
                              ELSE tm_queries
    /\ tm_pc' = [tm_pc EXCEPT !.step = "boost"]
    /\ UNCHANGED tm_in

\* get_demand_multipliers: get_event_boost asks a new TicketmasterEventsScraper
DemandBoost ==
    LET EstimateServices == <<"rideshare", "doordash", "ubereats", "grubhub">>
    IN
    /\ tm_pc.step = "boost"
    /\ LET events_data == get_events(tm_in.is_ticketmaster_available,
                              coords_truthy(tm_in.place), tm_in.geocode, tm_in.response,
                              tm_in.date)
       IN  tm_queries' =
               IF events_data.live # "none"
                   THEN Append(tm_queries, [estimate |-> tm_pc.estimate, by |-> "get_event_boost"])
                   ELSE tm_queries
    /\ tm_pc' = IF tm_pc.estimate = Len(EstimateServices)
                    THEN [estimate |-> tm_pc.estimate, step |-> "done"]
                    ELSE [estimate |-> tm_pc.estimate + 1, step |-> "events"]
    /\ UNCHANGED <<tm_in, tm_cache>>

\* ------------------------------------------------------------------------
\* the endpoints that share earnings_cache: GET /api/earnings,
\* POST /api/earnings/batch, GET /api/earnings/week
\* ------------------------------------------------------------------------
\* the keys of the predictions of get_all_estimates
ImprovedFields ==
    {"service", "min", "max", "hotspot", "demandScore", "tripsPerHour", "surgeMultiplier",
     "color", "baseEarnings", "costs", "netEarnings", "eventBoost", "eventBoostPercentage"}

\* the keys of the predictions of the legacy block
LegacyFields ==
    {"service", "min", "max", "hotspot", "demandScore", "tripsPerHour", "surgeMultiplier",
     "color", "startTime", "endTime"}

\* the keys of formatted_predictions of the week endpoint
WeekFields ==
    {"service", "min", "max", "hotspot", "demandScore", "tripsPerHour", "surgeMultiplier",
     "color"}

\* the hours asked for; the week endpoint goes through range(6, 24)
EndpointHours == {6, 18}

\* response_data of the legacy block, cached as it is returned
legacy_response_data ==
    [fields |-> {"location", "date", "timeSlot", "hour", "predictions", "metadata"},
     prediction_fields |-> LegacyFields]
\* the name under which the batch and week endpoints look up and store
named_location(name) ==
    [name |-> IF name = "" THEN "San Francisco" ELSE name, lat |-> NoCoord, lng |-> NoCoord]

\* GET /api/earnings
EarningsRequest ==
    LET improved_cache_data == [fields |-> {"predictions", "metadata"},
                                prediction_fields |-> ImprovedFields]
    IN
    \* what the improved path of get_earnings returns, and what it caches
    LET improved_response == [fields |-> {"location", "date", "timeSlot", "predictions"},
                              prediction_fields |-> ImprovedFields]
    IN
    LET EndpointRequests ==
            [location : {"San Francisco", ""}, lat : {NoCoord, 377749}, lng : {0 - 1224194},
             date : {RequestDate}, hour : EndpointHours, service : {"all"}]
    IN
    \E req \in EndpointRequests, scraper \in ScraperOutcomes :
        LET k == get_cache_key(request_location(req), req.date, req.hour)
            improved == has_coords(req) /\ scraper = "ok"
        IN  IF k \in DOMAIN ep_cache
                THEN /\ ep_reply' = [endpoint |-> "earnings", path |-> "cache", request |-> req,
                                     fields |-> ep_cache[k].fields,
                                     prediction_fields |-> ep_cache[k].prediction_fields]
                     /\ UNCHANGED ep_cache
                ELSE /\ ep_reply' =
                          [endpoint |-> "earnings",
                           path |-> IF improved THEN "improved" ELSE "legacy",
                           request |-> req,
                           fields |-> IF improved THEN improved_response.fields
                                      ELSE legacy_response_data.fields,
                           prediction_fields |-> IF improved THEN ImprovedFields
                                                 ELSE LegacyFields]
                     /\ ep_cache' = (k :> (IF improved THEN improved_cache_data
                                           ELSE legacy_response_data)) @@ ep_cache

\* POST /api/earnings/batch: a slot that is not cached is answered by
\* get_earnings, called with the location, the date and the times only
BatchRequest ==
    \E name \in {"San Francisco", ""}, slots \in SUBSET EndpointHours :
        LET location == named_location(name)
            key(h) == get_cache_key(location, RequestDate, h)
            missed == {h \in slots : key(h) \notin DOMAIN ep_cache}
        IN  /\ slots # {}
            /\ ep_cache' = [k \in DOMAIN ep_cache \cup {key(h) : h \in missed} |->
                               IF k \in DOMAIN ep_cache THEN ep_cache[k]
                               ELSE legacy_response_data]
            /\ ep_reply' = [endpoint |-> "batch",
                            path |-> IF missed = {} THEN "cache" ELSE "legacy",
                            request |-> [location |-> name, slots |-> slots],
                            fields |-> {"location", "date", "results"},
                            prediction_fields |-> {}]

\* GET /api/earnings/week: every hour of the week that is not cached is
\* estimated by the improved scraper and cached, unless the scraper raises
WeekRequest ==
    \* cache_data of the week endpoint
    LET week_cache_data == [fields |-> {"predictions", "metadata"}, prediction_fields |-> WeekFields]
    IN
    \E name \in {"San Francisco", ""},
       estimated \in SUBSET (IF improved_scraper_available THEN EndpointHours ELSE {}) :
        LET location == named_location(name)
            key(h) == get_cache_key(location, RequestDate, h)
            cached(h) == key(h) \in DOMAIN ep_cache /\ "predictions" \in ep_cache[key(h)].fields
            stored == {h \in estimated : ~cached(h)}
        IN  /\ ep_cache' = [k \in DOMAIN ep_cache \cup {key(h) : h \in stored} |->
                               IF k \in {key(h) : h \in stored} THEN week_cache_data
                               ELSE ep_cache[k]]
            /\ ep_reply' = [endpoint |-> "week",
                            path |-> IF stored = {} THEN "cache" ELSE "improved",
                            request |-> [location |-> name, estimated |-> estimated],
                            fields |-> {"location", "startDate", "weekData"},
                            prediction_fields |-> WeekFields]

\* an entry is an hour old
EntryExpires ==
    /\ \E k \in DOMAIN ep_cache :
          ep_cache' = [x \in DOMAIN ep_cache \ {k} |-> ep_cache[x]]
    /\ UNCHANGED ep_reply

\* ------------------------------------------------------------------------
\* concurrent requests: get_cached_earnings, the fetch, cache_earnings
\* ------------------------------------------------------------------------
Threads == 1..NumThreads

\* a request arrives: cached_data = get_cached_earnings(...); on a miss
\* the handler goes on to fetch
GetCachedEarnings(t) ==
    LET EarningsKeys == {"k1", "k2"}
    IN
    /\ thread[t].pc = "idle"
    /\ \E k \in EarningsKeys :
        thread' = [thread EXCEPT ![t] =
                      [pc |-> IF k \in earnings_cache THEN "done" ELSE "fetching", key |-> k]]
    /\ UNCHANGED earnings_cache

\* the fetch returns: cache_earnings(...) and the response
CacheEarnings(t) ==
    /\ thread[t].pc = "fetching"
    /\ earnings_cache' = earnings_cache \cup {thread[t].key}
    /\ thread' = [thread EXCEPT ![t].pc = "done"]

\* the thread takes the next request
NextRequest(t) ==
    /\ thread[t].pc = "done"
    /\ thread' = [thread EXCEPT ![t].pc = "idle"]
    /\ UNCHANGED earnings_cache

\* an entry reaches CACHE_TTL_SECONDS
Expire ==
    /\ \E k \in earnings_cache : earnings_cache' = earnings_cache \ {k}
    /\ UNCHANGED thread

Init ==
    LET EndpointsInit ==
            LET NoEndpointReply == [endpoint |-> "none", path |-> "none", request |-> << >>,
                                    fields |-> {}, prediction_fields |-> {}]
            IN
            /\ ep_cache = << >>
            /\ ep_reply = NoEndpointReply
    IN
    LET TicketmasterInit ==
            /\ tm_pc = [estimate |-> 0, step |-> "idle"]
            /\ tm_in = << >>
            /\ tm_cache = {}
            /\ tm_queries = << >>
    IN
    LET LightInit ==
            LET NoLightReply == [status |-> 0, hour |-> 0, predictions |-> << >>,
                                 metadata |-> [lightweight |-> TRUE, usingLiveData |-> FALSE,
                                               note |-> "", dataSources |-> << >>]]
            IN
            /\ light_pc = "idle"
            /\ light_in = << >>
            /\ light_reply = NoLightReply
    IN
    LET TwinInit ==
            LET NoEstimate == [readings |-> << >>, predictions |-> << >>]
            IN
            /\ twin_pc = "idle"
            /\ twin_in = << >>
            /\ twin_first = NoEstimate
            /\ twin_second = NoEstimate
    IN
    LET LegacyInit ==
            /\ leg_pc = "idle"
            /\ leg_in = [hour |-> 0, rideshare |-> NoForecast, delivery |-> NoForecast]
            /\ leg_results = [rideshare |-> NoResults, delivery |-> NoResults]
            /\ leg_predictions = << >>
    IN
    LET ConcInit ==
            /\ thread = [t \in Threads |-> [pc |-> "idle", key |-> "k1"]]
            /\ earnings_cache = {}
    IN
    LET SourcesInit ==
            LET NoSource == [live |-> "none", source |-> "none", geocoder |-> FALSE, nominatim |-> FALSE,
                             coords |-> "none", providers |-> {}, data |-> << >>]
            IN
            /\ src_pc = "idle"
            /\ src_in = [key |-> CHOOSE k \in SourceKeys : TRUE, place |-> NoPlace,
                         available |-> [weather |-> FALSE, events |-> FALSE, traffic |-> FALSE]]
            /\ sources = [c \in {"weather", "events", "traffic", "gas"} |-> NoSource]
            /\ src_predictions = << >>
    IN
    LET ApiInit ==
            LET NoReply == [status |-> 0, path |-> "none", request |-> << >>, live |-> FALSE,
                               body |-> [fields |-> {}, location |-> << >>, predictions |-> << >>]]
            IN
            /\ improved_scraper_available = TRUE
            /\ environment = [import |-> "ok", construct_rideshare |-> "ok", construct_delivery |-> "ok"]
            /\ forecasters_available = FALSE
            /\ rideshare_forecaster = FALSE
            /\ delivery_forecaster = FALSE
            /\ stored_by = << >>
            /\ reply = NoReply
    IN
    LET CacheInit ==
            LET NoCall == [client |-> "none", key |-> << >>, at |-> 0, had_entry |-> FALSE, age |-> 0,
                           hit |-> FALSE, live |-> "none", geocoder |-> FALSE, cached |-> FALSE,
                           data |-> [source |-> "none"]]
            IN
            /\ client = "none"
            /\ now = 0
            /\ start_hour = 9
            /\ cache = << >>
            /\ call = NoCall
    IN
    LET EstInit ==
            /\ est_pc = "idle"
            /\ est_in = [location |-> "springfield", date |-> CHOOSE d \in Dates : TRUE,
                         hour |-> 0, readings |-> NoReadings]
            /\ multipliers = [rideshare |-> [total_demand |-> 0], delivery |-> [total_demand |-> 0]]
            /\ predictions = << >>
    IN
    LET BoostInit ==
            LET NoEvent == [capacity |-> 0, start_time |-> NoTime, end_time |-> NoTime]
            IN
            /\ boost_pc = "idle"
            /\ hour = 0
            /\ total_boost = 0
            /\ processed = 0
            /\ event = NoEvent
            /\ added = 0
            /\ boost_result = 0
            /\ overlap_none = TRUE
            /\ outside_all = TRUE
            /\ overlap_sum = 0
    IN
    BoostInit /\ EstInit /\ CacheInit /\ ApiInit /\ SourcesInit /\ ConcInit /\ LegacyInit /\ TwinInit /\ LightInit /\ TicketmasterInit /\ EndpointsInit

NextSources == EstimateWithSources /\ UNCHANGED <<boost_vars, est_vars, cache_vars, api_vars, conc_vars, leg_vars, twin_vars, light_vars, tm_vars, ep_vars>>

SpecSources == Init /\ [][NextSources]_vars

NextLegacy ==
    LegacyForecast
    /\ UNCHANGED <<boost_vars, est_vars, cache_vars, api_vars, src_vars, conc_vars, twin_vars, light_vars, tm_vars, ep_vars>>

SpecLegacy == Init /\ [][NextLegacy]_vars

NextTwin ==
    /\ FirstEstimate \/ SecondEstimate
    /\ UNCHANGED <<boost_vars, est_vars, cache_vars, api_vars, src_vars, conc_vars, leg_vars, light_vars, tm_vars, ep_vars>>

SpecTwin == Init /\ [][NextTwin]_vars

NextLight ==
    /\ GetEarningsLightweight
    /\ UNCHANGED <<boost_vars, est_vars, cache_vars, api_vars, src_vars, conc_vars, leg_vars,
                   twin_vars, tm_vars, ep_vars>>

SpecLight == Init /\ [][NextLight]_vars

NextTicketmaster ==
    /\ BeginEstimates \/ DemandEvents \/ DemandBoost
    /\ UNCHANGED <<boost_vars, est_vars, cache_vars, api_vars, src_vars, conc_vars, leg_vars,
                   twin_vars, light_vars, ep_vars>>

SpecTicketmaster == Init /\ [][NextTicketmaster]_vars

NextEndpoints ==
    /\ EarningsRequest \/ BatchRequest \/ WeekRequest \/ EntryExpires
    /\ UNCHANGED <<boost_vars, est_vars, cache_vars, api_vars, src_vars, conc_vars, leg_vars,
                   twin_vars, light_vars, tm_vars>>

SpecEndpoints == Init /\ [][NextEndpoints]_vars

NextConc ==
    /\ \/ \E t \in Threads : GetCachedEarnings(t)
       \/ \E t \in Threads : CacheEarnings(t)
       \/ \E t \in Threads : NextRequest(t)
       \/ Expire
    /\ UNCHANGED <<boost_vars, est_vars, cache_vars, api_vars, src_vars, leg_vars, twin_vars, light_vars, tm_vars, ep_vars>>

SpecConc == Init /\ [][NextConc]_vars

NextCache ==
    /\ \/ NewClient
       \/ GetWeatherData
       \/ GetEventsData
       \/ GetTrafficData
       \/ GetGasPrices
       \/ GetEvents
       \/ StartServer
       \/ GetEarnings
       \/ Tick
    /\ UNCHANGED <<boost_vars, est_vars, src_vars, conc_vars, leg_vars, twin_vars, light_vars, tm_vars, ep_vars>>

SpecCache == Init /\ [][NextCache]_vars

NextEstimate == GetAllEstimates /\ UNCHANGED <<boost_vars, cache_vars, api_vars, src_vars, conc_vars, leg_vars, twin_vars, light_vars, tm_vars, ep_vars>>

SpecEstimate == Init /\ [][NextEstimate]_vars

NextBoost ==
    /\ \/ GetEventBoostStart
       \/ GetEventBoostEvent
       \/ GetEventBoostReturn
    /\ UNCHANGED <<est_vars, cache_vars, api_vars, src_vars, conc_vars, leg_vars, twin_vars, light_vars, tm_vars, ep_vars>>

SpecBoost == Init /\ [][NextBoost]_vars

\* ------------------------------------------------------------------------
\* C1: for every list of events and every target hour 0..23 get_event_boost
\* returns a value in [0, 1.5].
C1_BoostInRange ==
    boost_pc = "done" => (0 <= boost_result /\ boost_result <= 150)

\* the clamp acted: the events of the hour sum to more than 1.5
C1_Witness ==
    boost_pc = "done" /\ total_boost > 150 /\ boost_result = 150

\* C2 (as stated): an event adds its attendance multiplier exactly when
\* [h, h+1) overlaps one of its three half-open windows, and the boost is 0
\* if [h, h+1) lies outside [start-width, end+width) of every event.
C2_Original ==
    /\ (processed > 0 =>
           added = IF OverlapsAWindow(event, hour)
                      THEN attendance_multiplier(event.capacity) ELSE 0)
    /\ (boost_pc = "done" /\ outside_all => boost_result = 0)

\* C2 (amended): an event adds its attendance multiplier exactly when
\* [h, h+1) overlaps one of its three half-open windows, and the boost is 0
\* if [h, h+1) overlaps none of the three windows of any event.
C2_WindowOverlap ==
    /\ (processed > 0 =>
           added = IF OverlapsAWindow(event, hour)
                      THEN attendance_multiplier(event.capacity) ELSE 0)
    /\ (boost_pc = "done" /\ overlap_none => boost_result = 0)

\* an event starting at half past, whose arrival window the hour only
\* overlaps in part, has contributed
C2_Witness ==
    /\ processed > 0
    /\ event.start_time # NoTime
    /\ added > 0
    /\ ~PointInWindow(hour, arrival_window_start(event), departure_window_end(event))
    /\ OverlapsAWindow(event, hour)

\* C3: whatever the time-of-day, weekend, event, weather and seasonal
\* multipliers are, total_demand is at most 1.8 for rideshare and at most 2.0
\* for delivery.
C3_TotalDemandCapped ==
    est_pc = "done" =>
        /\ multipliers.rideshare.total_demand <= 1800
        /\ multipliers.delivery.total_demand <= 2000

\* the multipliers compound beyond both caps and the caps acted
C3_Witness ==
    /\ est_pc = "done"
    /\ multipliers.rideshare.base_total > 1800
    /\ multipliers.rideshare.total_demand = 1800
    /\ multipliers.delivery.base_total > 2000
    /\ multipliers.delivery.total_demand = 2000

\* C4: netEarnings of estimate_rideshare_earnings is within [8, 55] and
\* netEarnings of estimate_delivery_earnings within [10, 45].
C4_NetEarningsInBand ==
    est_pc = "done" =>
        /\ predictions[1].netEarnings >= 8000 /\ predictions[1].netEarnings <= 55000
        /\ \A i \in 3..5 :
              predictions[i].netEarnings >= 10000 /\ predictions[i].netEarnings <= 45000

\* both clamps acted in one call: gross less costs is above the rideshare
\* ceiling and below the delivery floor
C4_Witness ==
    /\ est_pc = "done"
    /\ predictions[1].baseEarnings - predictions[1].costs > 55000
    /\ predictions[1].netEarnings = 55000
    /\ predictions[3].baseEarnings - predictions[3].costs < 10000
    /\ predictions[3].netEarnings = 10000

\* ------------------------------------------------------------------------
\* C5: a well-formed GET /api/earnings request is never answered with an
\* error response: the answer is 200 with a non-empty prediction set, and
\* when neither the improved scraper nor the forecasters are there, the
\* predictions are the config-defaults estimate.
C5_NeverAnError ==
    reply.status # 0 =>
        /\ reply.status = 200
        /\ "error" \notin reply.body.fields
        /\ "predictions" \in reply.body.fields
        /\ Len(reply.body.predictions) > 0
        /\ (~improved_scraper_available /\ environment.import = "ImportError") =>
                \A i \in 1..Len(reply.body.predictions) :
                    reply.body.predictions[i].source = "config_defaults"

\* the improved scraper raised on a request with coordinates and no
\* forecaster could be had: the answer is the config-defaults estimate
C5_Witness ==
    /\ reply.status = 200
    /\ reply.path = "config_defaults"
    /\ has_coords(reply.request)
    /\ improved_scraper_available
    /\ environment.import = "ok"
    /\ environment.construct_rideshare = "raised"
    /\ environment.construct_delivery = "raised"

\* C7: a request with the same (location, coordinates, date, hour) as the
\* request that stored the cache entry, answered from that entry, gets the
\* same response body as that request got, and without a live call.
C7_IdenticalResponses ==
    (/\ reply.path = "cache"
     /\ call.key \in DOMAIN stored_by
     /\ stored_by[call.key].request.location = reply.request.location
     /\ stored_by[call.key].request.lat = reply.request.lat
     /\ stored_by[call.key].request.lng = reply.request.lng
     /\ stored_by[call.key].request.date = reply.request.date
     /\ stored_by[call.key].request.hour = reply.request.hour)
        => /\ reply.body = stored_by[call.key].body
           /\ ~reply.live

\* C9: the reading a source client returned is in its cache under the
\* call's key, so that the same call repeated at once is a cache hit.
C9_ReturnedIsCached ==
    call.client \in SourceClients =>
        /\ call.key \in DOMAIN cache
        /\ cache[call.key].data = call.data
        /\ call.at - cache[call.key].timestamp <
                (IF call.client \in {"gas", "ticketmaster"} THEN 3600 ELSE 300)

\* C10 as stated: an entry is returned exactly while its age is below
\* 1 hour for fuel, weather, events and the full response, 5 minutes for
\* traffic.
C10_Original ==
    call.client # "none" =>
        (call.hit <=> (call.had_entry /\ call.age <
                          (IF call.client = "traffic" THEN 300 ELSE 3600)))

\* C10 amended: an entry is returned exactly while its age is below the
\* TTL, which is 1 hour for fuel, for the Ticketmaster event list and for
\* the full response, and 5 minutes for traffic and for the weather and
\* events readings of LiveDataScraper.
C10_ReturnedWhileFresh ==
    call.client # "none" =>
        (call.hit <=> (call.had_entry /\ call.age <
                          (IF call.client \in {"gas", "ticketmaster", "earnings"}
                              THEN 3600 ELSE 300)))

\* a weather reading exactly 5 minutes old is not returned
C10_Witness ==
    /\ call.client = "weather"
    /\ call.had_entry
    /\ call.age = 300
    /\ ~call.hit

C8_SingleFlight ==
    \A t1, t2 \in Threads :
        (/\ thread[t1].pc = "fetching"
         /\ thread[t2].pc = "fetching"
         /\ thread[t1].key = thread[t2].key) => t1 = t2

\* ------------------------------------------------------------------------
\* C11: the reading get_weather_data, get_events_data, get_traffic_data or
\* get_gas_prices returned, on whichever path (cache hit, live success,
\* live failure, no credentials, geocoding failure), has a source tag,
\* and the tag is not empty.
C11_SourceTagSet ==
    call.client \in {"weather", "events", "traffic", "gas"} =>
        /\ "source" \in DOMAIN call.data
        /\ call.data.source # ""
        /\ call.data.source \in LiveTags \cup EstimateTags

\* a cache hit hands back a reading that was an estimate after a failed
\* live call
C11_Witness ==
    /\ call.client = "traffic"
    /\ call.hit
    /\ call.data.source = "estimate"
    /\ call.age = 299

C13_CapacityTiers ==
    (processed > 0 /\ event.start_time # NoTime) =>
        LET capacity == event.capacity
            tier == IF capacity < 500 THEN <<5, 1>>
                    ELSE IF capacity <= 5000 THEN <<20, 2>>
                    ELSE <<50, 3>>
        IN  /\ attendance_multiplier(capacity) = tier[1]
            /\ arrival_hours_before(capacity) = tier[2]
            /\ departure_hours_after(capacity) = tier[2]
            /\ added \in {0, tier[1]}

\* ------------------------------------------------------------------------
\* C14: the attendance multiplier and the width of the arrival and
\* departure windows never decrease as the capacity grows: for the event
\* get_event_boost just took and every other capacity, the smaller
\* capacity has the smaller or equal multiplier and width.
C14_TiersMonotone ==
    (processed > 0 /\ event.start_time # NoTime) =>
        \A c1 \in Capacities \cup {event.capacity} :
        \A c2 \in Capacities \cup {event.capacity} :
            (c1 <= c2 /\ event.capacity \in {c1, c2}) =>
                /\ attendance_multiplier(c1) <= attendance_multiplier(c2)
                /\ arrival_hours_before(c1) <= arrival_hours_before(c2)
                /\ departure_hours_after(c1) <= departure_hours_after(c2)

\* an event at the boundary between the two upper tiers has been counted
C14_Witness ==
    /\ processed > 0
    /\ event.capacity = 4999
    /\ added = attendance_multiplier(4999)
    /\ attendance_multiplier(4999) < attendance_multiplier(5000)

\* ------------------------------------------------------------------------
\* C15: for the target hour an event adds its attendance multiplier once
\* if one or more of its windows overlap the hour and nothing otherwise,
\* every such event adds, and the boost returned is the smaller of 1.5 and
\* the sum of the multipliers of the events that added.
C15_OncePerEvent ==
    /\ processed > 0 =>
          added = (IF OverlapsAWindow(event, hour)
                      THEN attendance_multiplier(event.capacity) ELSE 0)
    /\ total_boost = overlap_sum
    /\ boost_pc = "done" => boost_result = Min(150, overlap_sum)

\* two events added, the last one through two of its windows at once
C15_Witness ==
    /\ boost_pc = "done"
    /\ processed = 2
    /\ Cardinality({w \in EventWindows(event) : w \cap HourTicks(hour) # {}}) >= 2
    /\ added = attendance_multiplier(event.capacity)
    /\ overlap_sum > added
    /\ boost_result = overlap_sum

\* ------------------------------------------------------------------------
ScenarioBoost ==
    \* the one event of the scenario, and what get_event_boost returns for it
    \* at hour 18
    LET ScenarioEvent ==
            [capacity |-> 20000, start_time |-> 19 * TicksPerHour, end_time |-> 22 * TicksPerHour]
    IN
                 cap_total_boost(event_contribution(ScenarioEvent, 18))

\* C16: San Francisco, Saturday 2025-11-08, hour 18, one event of capacity
\* 20000 from 19:00 to 22:00: get_event_boost gives 0.5, and with that
\* boost the rideshare surge multiplier is greater than the one the same
\* readings give without the event.
C16_EventRaisesSurge ==
    (   /\ est_pc = "done"
        /\ est_in.location = "san francisco"
        /\ est_in.date.ok /\ est_in.date.weekday = 5 /\ est_in.date.month = 11
        /\ est_in.hour = 18
        /\ est_in.readings.event_boost = ScenarioBoost ) =>
        /\ ScenarioBoost = 50
        /\ predictions[1].eventBoost = 500
        /\ predictions[1].surgeMultiplier >
              estimate_rideshare_earnings(est_in.location, est_in.date, est_in.hour,
                    [est_in.readings EXCEPT !.event_boost = 0]).surgeMultiplier

\* the scenario with the demand at its cap: the surge goes from 1.15 to 1.3
C16_Witness ==
    /\ est_pc = "done"
    /\ est_in.location = "san francisco"
    /\ est_in.date.ok /\ est_in.date.weekday = 5 /\ est_in.date.month = 11
    /\ est_in.hour = 18
    /\ est_in.readings.event_boost = ScenarioBoost
    /\ multipliers.rideshare.total_demand = 1800
    /\ predictions[1].surgeMultiplier = 1300

C20_FallsBackToToday ==
    (est_pc = "done" /\ ~est_in.date.ok) =>
        LET today == est_in.date
            weekend == today.today_weekday >= 5
            friday == today.today_weekday = 4
            holiday == today.today_month \in {11, 12}
            summer == today.today_month \in {6, 7, 8}
        IN  /\ multipliers.rideshare.weekend_multiplier =
                  (IF friday THEN 1150 ELSE IF weekend THEN 1250 ELSE 1000)
            /\ multipliers.delivery.weekend_multiplier =
                  (IF friday THEN 1250 ELSE IF weekend THEN 1350 ELSE 1000)
            /\ multipliers.rideshare.seasonal_multiplier =
                  (IF holiday THEN 1200 ELSE IF summer THEN 1100 ELSE 1000)
            /\ multipliers.delivery.seasonal_multiplier =
                  (IF holiday THEN 1200 ELSE IF summer THEN 950 ELSE 1000)

\* ------------------------------------------------------------------------
\* C18: when the request supplies coordinates, whatever their numeric
\* values, the weather, traffic and Ticketmaster clients make no
\* forward-geocoding call for the location name, and the provider calls
\* they make carry the coordinates of the request.
C18_SuppliedCoordinatesUsed ==
    (src_pc = "done" /\ src_in.place.given) =>
        \A c \in {"weather", "traffic", "events"} :
            /\ ~sources[c].geocoder
            /\ sources[c].live # "none" => sources[c].coords = "request"

C21_LegacyNetClamped ==
    leg_pc = "done" =>
        /\ leg_in.rideshare.fc = "fc" =>
              leg_results.rideshare.net_hourly_earnings =
                  Max(Min(leg_results.rideshare.gross_hourly_earnings - leg_in.rideshare.costs,
                          55000), 8000)
        /\ leg_in.delivery.fc = "fc" =>
              leg_results.delivery.net_hourly_earnings =
                  Max(Min(leg_results.delivery.gross_hourly_earnings - leg_in.delivery.costs,
                          45000), 10000)

\* ------------------------------------------------------------------------
\* C22: two new scrapers, with empty caches, asked the same location,
\* coordinates, date and hour while every provider answers the same way
\* (or none is available) return the same readings and the same
\* predictions, whatever the wall-clock hours of the two calls.
C22_SameAtAnyHour ==
    twin_pc = "done" =>
        /\ twin_first.readings = twin_second.readings
        /\ twin_first.predictions = twin_second.predictions

\* ------------------------------------------------------------------------
\* C23: when the improved scraper raises, GET /api/earnings/lightweight still
\* answers 200 with exactly the config-default predictions (all five
\* services for the filter 'all'), usingLiveData false, dataSources
\* ['Config defaults'] and a note that says it fell back.
C23_RaiseFallsBackToDefaults ==
    (light_pc = "done" /\ light_in.outcome \in {"construct_raised", "estimate_raised"}) =>
        /\ light_reply.status = 200
        /\ light_reply.predictions =
               config_default_predictions(light_in.hour, light_in.service)
        /\ \A i \in 1..Len(light_reply.predictions) :
               light_reply.predictions[i].path = "config_defaults"
        /\ light_in.service = "all" =>
               [i \in 1..Len(light_reply.predictions) |-> light_reply.predictions[i].service]
                   = LightServices
        /\ light_reply.metadata.usingLiveData = FALSE
        /\ light_reply.metadata.dataSources = <<"Config defaults">>
        /\ light_reply.metadata.note = "Fell back to config defaults"

C23_Witness ==
    /\ light_pc = "done"
    /\ light_in.outcome = "estimate_raised"
    /\ light_in.service = "all"
    /\ Len(light_reply.predictions) = 5
    /\ light_reply.metadata.note = "Fell back to config defaults"

\* ------------------------------------------------------------------------
\* C24: the rideshare surge multiplier stays within [0.95, 1.3] and the
\* delivery peak-pay multiplier within [1.0, 1.35]; an event boost raises
\* them by at most 0.15 and 0.12 over their value without the event and
\* never lowers them.
C24_SurgeAndPeakBounded ==
    est_pc = "done" =>
        LET surge == predictions[1].surgeMultiplier
            surge_no_event == surge_multiplier(multipliers.rideshare.total_demand, 0)
            peak_no_event == peak_pay_multiplier(est_in.hour, 0)
        IN  /\ 950 <= surge /\ surge <= 1300
            /\ surge_no_event <= surge /\ surge <= surge_no_event + 150
            /\ predictions[2].surgeMultiplier = surge
            /\ \A i \in 3..5 :
                  /\ 1000 <= predictions[i].surgeMultiplier
                  /\ predictions[i].surgeMultiplier <= 1350
                  /\ peak_no_event <= predictions[i].surgeMultiplier
                  /\ predictions[i].surgeMultiplier <= peak_no_event + 120

C24_Witness ==
    /\ est_pc = "done"
    /\ est_in.readings.event_boost = 150
    /\ est_in.hour = 19
    /\ multipliers.rideshare.total_demand > 1500
    /\ predictions[1].surgeMultiplier = 1300
    /\ predictions[3].surgeMultiplier = 1320

\* ------------------------------------------------------------------------
\* C25: every prediction of get_all_estimates has tripsPerHour within the
\* clamp of its service type: [1.0, 3.5] for Uber and Lyft, [1.0, 4.0] for
\* the delivery services, at every hour.
C25_TripsWithinClamp ==
    est_pc = "done" =>
        /\ \A i \in 1..2 : /\ 1000 <= predictions[i].tripsPerHour
                           /\ predictions[i].tripsPerHour <= 3500
        /\ \A i \in 3..5 : /\ 1000 <= predictions[i].tripsPerHour
                           /\ predictions[i].tripsPerHour <= 4000

\* ------------------------------------------------------------------------
\* C26: in the legacy forecasters the total deadtime stays within its
\* configured range (5..25 minutes rideshare, 3..15 delivery) and the
\* throughput per driver is at most 60 / (duration + deadtime); for
\* delivery that ceiling is multiplied by 1.3 exactly when the demand/supply
\* ratio is strictly above 1.5, and by 1.0 otherwise.
C26_ThroughputCeiling ==
    leg_pc = "done" =>
        /\ leg_in.rideshare.fc = "fc" =>
              LET results == leg_results.rideshare IN
              /\ 5000 <= results.deadtime_impact /\ results.deadtime_impact <= 25000
              /\ results.trips_per_driver * (18000 + results.deadtime_impact) <= 60000 * 1000
        /\ leg_in.delivery.fc = "fc" =>
              LET results == leg_results.delivery
                  ratio == demand_supply_ratio(leg_in.delivery.demand, leg_in.delivery.supply)
                  factor == IF ratio > 1500 THEN 1300 ELSE 1000
              IN  /\ 3000 <= results.deadtime_impact /\ results.deadtime_impact <= 15000
                  /\ results.stacking_factor = factor
                  /\ results.deliveries_per_driver * (10000 + results.deadtime_impact)
                        <= 60000 * factor

C26_Witness ==
    /\ leg_pc = "done"
    /\ leg_in.rideshare.fc = "fc"
    /\ leg_in.delivery.fc = "fc"
    /\ leg_in.delivery.demand = 9000
    /\ leg_in.delivery.supply = 2000
    /\ leg_results.delivery.stacking_factor = 1300
    /\ leg_results.delivery.deliveries_per_driver < 4500
    /\ leg_results.delivery.deliveries_per_driver > 2400
    /\ leg_in.rideshare.demand = 9000
    /\ leg_in.rideshare.supply = 2000
    /\ leg_results.rideshare.trips_per_driver < 4500

\* ------------------------------------------------------------------------
\* C27: within one get_all_estimates call Ticketmaster is asked at most
\* once for the location and date; the later event-multiplier and
\* event-boost computations of the call reuse the first reading.
C27_TicketmasterAskedOnce ==
    Len(tm_queries) <= 1

\* ------------------------------------------------------------------------
\* C28: every prediction of every response, whichever path produced it
\* (improved scraper, legacy forecasters, config defaults), at every hour,
\* has min <= max.
C28_MinAtMostMax ==
    leg_pc = "done" =>
        \A i \in 1..Len(leg_predictions) : leg_predictions[i].min <= leg_predictions[i].max

\* ------------------------------------------------------------------------
\* C29: in every prediction of get_all_estimates the reported netEarnings
\* lies within the reported range, min <= netEarnings <= max.
C29_NetWithinRange ==
    est_pc = "done" =>
        \A i \in 1..Len(predictions) :
            /\ predictions[i].min <= predictions[i].netEarnings
            /\ predictions[i].netEarnings <= predictions[i].max

\* ------------------------------------------------------------------------
\* C30: whichever endpoint stored the entry, a cache hit on /api/earnings
\* answers with the fields a miss for the same request has: location, date,
\* timeSlot and predictions, the predictions carrying the fields of a
\* freshly computed prediction.
C30_HitHasFieldsOfMiss ==
    (ep_reply.endpoint = "earnings" /\ ep_reply.path = "cache") =>
        /\ {"location", "date", "timeSlot", "predictions"} \subseteq ep_reply.fields
        /\ ep_reply.prediction_fields \in
               {LegacyFields} \cup
               (IF has_coords(ep_reply.request) THEN {ImprovedFields} ELSE {})

====
